---------------------------- MODULE Spec2Model ----------------------------
(***************************************************************************)
(* Course scheduler: ingestion of schedule sheets, the course model,       *)
(* conflict detection, move validation, the edit modal and the             *)
(* format-preserving exporter, as a state machine.                         *)
(*                                                                         *)
(* Conventions.                                                            *)
(*  - A JavaScript string is a TLA+ string; the i-th character of s is     *)
(*    SubSeq(s, i, i).                                                     *)
(*  - A JavaScript Date built by new Date(2020, 0, 1, h, m) is the number  *)
(*    of minutes since 2020-01-01 00:00 local time, an integer that may be *)
(*    negative or exceed 1439; getHours()*60 + getMinutes() is that number *)
(*    modulo 1440.                                                         *)
(*  - A JavaScript object is a record; a property the object does not have *)
(*    is a field the record does not have (read as undefined).             *)
(*  - A course id `course_${n}` is the integer n.                          *)
(*  - null / undefined is the value Null.                                  *)
(***************************************************************************)
EXTENDS Integers, Sequences, FiniteSets, TLC

\* null / undefined where a string is expected.
Null == "<null>"

\* null where a Date is expected (below every Date the program can build).
NullDate == 0 - 100000000

\* F applied to the value of v: v is evaluated once, where a name bound by
\* LET is evaluated again at each of its uses.
With(v, F(_)) == CHOOSE r \in {F(x) : x \in {v}} : TRUE

(***************************************************************************)
(* Strings                                                                 *)
(***************************************************************************)
Char(s, i) == SubSeq(s, i, i)

Digits == {"0", "1", "2", "3", "4", "5", "6", "7", "8", "9"}

IsDigit(c) == c \in Digits

IsSpace(c) == c = " "

DigitVal(c) ==
  CASE c = "0" -> 0 [] c = "1" -> 1 [] c = "2" -> 2 [] c = "3" -> 3
    [] c = "4" -> 4 [] c = "5" -> 5 [] c = "6" -> 6 [] c = "7" -> 7
    [] c = "8" -> 8 [] c = "9" -> 9

DigitChar(n) == Char("0123456789", n + 1)

LowerLetters == "abcdefghijklmnopqrstuvwxyz"

UpperLetters == "ABCDEFGHIJKLMNOPQRSTUVWXYZ"

\* Position of character c in string s, 0 when absent (indexOf + 1).
IndexIn(c, s) ==
  LET hits == {i \in 1..Len(s) : Char(s, i) = c}
  IN  IF hits = {} THEN 0 ELSE CHOOSE i \in hits : \A j \in hits : i <= j

LowerChar(c) == IF IndexIn(c, UpperLetters) > 0 THEN Char(LowerLetters, IndexIn(c, UpperLetters)) ELSE c

UpperChar(c) == IF IndexIn(c, LowerLetters) > 0 THEN Char(UpperLetters, IndexIn(c, LowerLetters)) ELSE c

RECURSIVE toLowerCase(_)
toLowerCase(s) == IF s = "" THEN "" ELSE LowerChar(Char(s, 1)) \o toLowerCase(SubSeq(s, 2, Len(s)))

RECURSIVE toUpperCase(_)
toUpperCase(s) == IF s = "" THEN "" ELSE UpperChar(Char(s, 1)) \o toUpperCase(SubSeq(s, 2, Len(s)))

\* s.startsWith(p) at position i (1-based).
MatchAt(s, i, p) == i + Len(p) - 1 <= Len(s) /\ SubSeq(s, i, i + Len(p) - 1) = p

\* s.includes(p)
includes(s, p) == \E i \in 1..(Len(s) + 1) : MatchAt(s, i, p)

RECURSIVE TrimLeft(_)
TrimLeft(s) == IF s # "" /\ IsSpace(Char(s, 1)) THEN TrimLeft(SubSeq(s, 2, Len(s))) ELSE s

RECURSIVE TrimRight(_)
TrimRight(s) == IF s # "" /\ IsSpace(Char(s, Len(s))) THEN TrimRight(SubSeq(s, 1, Len(s) - 1)) ELSE s

\* s.trim()
trim(s) == TrimRight(TrimLeft(s))

\* s.replace(/\s+/g, rep): every maximal run of whitespace becomes rep.
RECURSIVE ReplaceSpaceRuns(_, _)
ReplaceSpaceRuns(s, rep) ==
  IF s = "" THEN ""
  ELSE IF IsSpace(Char(s, 1)) THEN rep \o ReplaceSpaceRuns(TrimLeft(s), rep)
  ELSE Char(s, 1) \o ReplaceSpaceRuns(SubSeq(s, 2, Len(s)), rep)

\* s.replace(/[,\s]+/g, '')
RECURSIVE RemoveSeparators(_)
RemoveSeparators(s) ==
  IF s = "" THEN ""
  ELSE IF IsSpace(Char(s, 1)) \/ Char(s, 1) = "," THEN RemoveSeparators(SubSeq(s, 2, Len(s)))
  ELSE Char(s, 1) \o RemoveSeparators(SubSeq(s, 2, Len(s)))

\* s.replace(/pat/g, rep) for a literal pattern pat: leftmost, non-overlapping.
RECURSIVE ReplaceAll(_, _, _)
ReplaceAll(s, pat, rep) ==
  IF s = "" THEN ""
  ELSE IF MatchAt(s, 1, pat) THEN rep \o ReplaceAll(SubSeq(s, Len(pat) + 1, Len(s)), pat, rep)
  ELSE Char(s, 1) \o ReplaceAll(SubSeq(s, 2, Len(s)), pat, rep)

\* s.replace(/(\d)\.(\d)/g, '$1:$2')
RECURSIVE ReplaceDigitDot(_)
ReplaceDigitDot(s) ==
  IF s = "" THEN ""
  ELSE IF Len(s) >= 3 /\ IsDigit(Char(s, 1)) /\ Char(s, 2) = "." /\ IsDigit(Char(s, 3))
    THEN Char(s, 1) \o ":" \o Char(s, 3) \o ReplaceDigitDot(SubSeq(s, 4, Len(s)))
  ELSE Char(s, 1) \o ReplaceDigitDot(SubSeq(s, 2, Len(s)))

AllDigits(s) == \A i \in 1..Len(s) : IsDigit(Char(s, i))

\* parseInt(s, 10) of a non-empty string of digits.
RECURSIVE parseInt(_)
parseInt(s) == IF s = "" THEN 0 ELSE 10 * parseInt(SubSeq(s, 1, Len(s) - 1)) + DigitVal(Char(s, Len(s)))

\* n.toString().padStart(2, '0') for 0 <= n
RECURSIVE NatToString(_)
NatToString(n) == IF n < 10 THEN DigitChar(n) ELSE NatToString(n \div 10) \o DigitChar(n % 10)

PadStart2(n) == IF n < 10 THEN "0" \o DigitChar(n) ELSE NatToString(n)

\* s.split(sep)[0] and the last element of s.split(sep), sep one character.
RECURSIVE SplitFirst(_, _)
SplitFirst(s, sep) ==
  IF s = "" \/ Char(s, 1) = sep THEN "" ELSE Char(s, 1) \o SplitFirst(SubSeq(s, 2, Len(s)), sep)

RECURSIVE SplitLast(_, _)
SplitLast(s, sep) ==
  IF s = "" \/ Char(s, Len(s)) = sep THEN "" ELSE SplitLast(SubSeq(s, 1, Len(s) - 1), sep) \o Char(s, Len(s))


(***************************************************************************)
(* fileHandler.js: parseTime, parseDays, formatTime, formatTime24          *)
(***************************************************************************)
\* The /\s*(AM|PM|A|P)\.?\s*$/ match starting at position i of s.
MeridiemSuffixAt(s, i) ==
  LET r0 == TrimLeft(SubSeq(s, i, Len(s)))
      r1 == TrimRight(r0)
      r2 == IF r1 # "" /\ Char(r1, Len(r1)) = "." THEN SubSeq(r1, 1, Len(r1) - 1) ELSE r1
  IN  r2 \in {"AM", "PM", "A", "P"}

\* str.replace(/\s*(AM|PM|A|P)\.?\s*$/i, ''): the leftmost match is removed.
StripMeridiem(s) ==
  IF \E i \in 1..Len(s) : MeridiemSuffixAt(s, i)
    THEN LET i == CHOOSE k \in 1..Len(s) :
                    MeridiemSuffixAt(s, k) /\ \A j \in 1..(k - 1) : ~MeridiemSuffixAt(s, j)
         IN  SubSeq(s, 1, i - 1)
    ELSE s

\* str.match(/^(\d{1,2}):?(\d{2})$/): <<hours text, minutes text>>, or <<>> for null.
MatchClock(s) ==
  LET n == Len(s)
  IN  IF n \in {4, 5} /\ Char(s, n - 2) = ":" /\ AllDigits(SubSeq(s, 1, n - 3))
           /\ AllDigits(SubSeq(s, n - 1, n))
        THEN <<SubSeq(s, 1, n - 3), SubSeq(s, n - 1, n)>>
      ELSE IF n \in {3, 4} /\ AllDigits(s)
        THEN <<SubSeq(s, 1, n - 2), SubSeq(s, n - 1, n)>>
      ELSE <<>>

\* parseTime that adds 12 to every hour marked PM, 12 included.
parseTimeNoonAdds12(str) ==
  IF str = "" \/ str = Null THEN NullDate
  ELSE
    With(ReplaceSpaceRuns(toUpperCase(trim(str)), " "), LAMBDA s1 :
    With(ReplaceAll(ReplaceAll(s1, "A.M.", "AM"), "P.M.", "PM"), LAMBDA s2 :
    With(ReplaceAll(ReplaceAll(s2, "A.M", "AM"), "P.M", "PM"), LAMBDA s3 :
    With(ReplaceDigitDot(s3), LAMBDA s4 :
    With(IF Len(s4) = 3 /\ AllDigits(s4) THEN "0" \o s4 ELSE s4, LAMBDA p :
    With(IF Len(p) = 4 /\ AllDigits(p) THEN SubSeq(p, 1, 2) \o ":" \o SubSeq(p, 3, 4) ELSE p, LAMBDA s5 :
    With(MatchClock(trim(StripMeridiem(s5))), LAMBDA match :
      IF match = <<>> THEN NullDate
      ELSE
        LET isPM == includes(s5, "PM") \/ includes(s5, "P")
            isAM == includes(s5, "AM") \/ includes(s5, "A")
            h0 == parseInt(match[1])
            minutes == parseInt(match[2])
            h1 == IF isPM THEN h0 + 12 ELSE h0
            hours == IF isAM /\ h1 = 12 THEN 0 ELSE h1
        IN  IF hours >= 0 /\ hours < 24 /\ minutes >= 0 /\ minutes < 60
              THEN hours * 60 + minutes
              ELSE NullDate)))))))

\* parseTime(str): the Date as minutes since the reference midnight, or NullDate.
parseTime(str) ==
  IF str = "" \/ str = Null THEN NullDate
  ELSE
    With(ReplaceSpaceRuns(toUpperCase(trim(str)), " "), LAMBDA s1 :
    With(ReplaceAll(ReplaceAll(s1, "A.M.", "AM"), "P.M.", "PM"), LAMBDA s2 :
    With(ReplaceAll(ReplaceAll(s2, "A.M", "AM"), "P.M", "PM"), LAMBDA s3 :
    With(ReplaceDigitDot(s3), LAMBDA s4 :
    With(IF Len(s4) = 3 /\ AllDigits(s4) THEN "0" \o s4 ELSE s4, LAMBDA p :
    With(IF Len(p) = 4 /\ AllDigits(p) THEN SubSeq(p, 1, 2) \o ":" \o SubSeq(p, 3, 4) ELSE p, LAMBDA s5 :
    With(MatchClock(trim(StripMeridiem(s5))), LAMBDA match :
      IF match = <<>> THEN NullDate
      ELSE
        LET isPM == includes(s5, "PM") \/ includes(s5, "P")
            isAM == includes(s5, "AM") \/ includes(s5, "A")
            h0 == parseInt(match[1])
            minutes == parseInt(match[2])
            h1 == IF isPM /\ h0 # 12 THEN h0 + 12 ELSE h0
            hours == IF isAM /\ h1 = 12 THEN 0 ELSE h1
        IN  IF hours >= 0 /\ hours < 24 /\ minutes >= 0 /\ minutes < 60
              THEN hours * 60 + minutes
              ELSE NullDate)))))))

\* date.getHours() * 60 + date.getMinutes()
MinuteOfDay(date) == date % 1440

getHours(date) == MinuteOfDay(date) \div 60

getMinutes(date) == MinuteOfDay(date) % 60

\* formatTime(date): 12-hour display text.
formatTime(date) ==
  IF date = NullDate THEN ""
  ELSE LET hours == getHours(date)
           ampm == IF hours >= 12 THEN "PM" ELSE "AM"
           h12 == IF hours % 12 = 0 THEN 12 ELSE hours % 12
       IN  NatToString(h12) \o ":" \o PadStart2(getMinutes(date)) \o " " \o ampm

\* formatTime24(date): HH:MM.
formatTime24(date) ==
  IF date = NullDate THEN "" ELSE PadStart2(getHours(date)) \o ":" \o PadStart2(getMinutes(date))

\* The alternatives of parseDays' pattern, in the order the regular
\* expression tries them (tues? and thur?s? written out greedy-first).
DayPatternAlternatives ==
  <<"monday", "mon", "tuesday", "tues", "tue", "wednesday", "wed", "thursday",
    "thurs", "thur", "thus", "thu", "th", "friday", "fri">>

\* dayMap[match]; Null for a match that is no key of dayMap.
dayMap(m) ==
  CASE m \in {"monday", "mon"} -> "m"
    [] m \in {"tuesday", "tue", "tues"} -> "t"
    [] m \in {"wednesday", "wed"} -> "w"
    [] m \in {"thursday", "thu", "thur", "thurs", "th"} -> "r"
    [] m \in {"friday", "fri"} -> "f"
    [] OTHER -> Null

\* The alternative matched at the head of s, or "" when none matches.
DayNameAtHead(s) ==
  IF \E k \in 1..Len(DayPatternAlternatives) : MatchAt(s, 1, DayPatternAlternatives[k])
    THEN DayPatternAlternatives[CHOOSE k \in 1..Len(DayPatternAlternatives) :
           /\ MatchAt(s, 1, DayPatternAlternatives[k])
           /\ \A j \in 1..(k - 1) : ~MatchAt(s, 1, DayPatternAlternatives[j])]
    ELSE ""

\* The loop over str.match(pattern): letters of the day names, first
\* occurrence kept, appended to result.
RECURSIVE DayNameLetters(_, _)
DayNameLetters(s, result) ==
  IF s = "" THEN result
  ELSE LET m == DayNameAtHead(s)
       IN  IF m = "" THEN DayNameLetters(SubSeq(s, 2, Len(s)), result)
           ELSE LET letter == dayMap(m)
                IN  DayNameLetters(SubSeq(s, Len(m) + 1, Len(s)),
                      IF letter # Null /\ ~includes(result, letter) THEN result \o letter ELSE result)

\* The loop over the characters of str.
RECURSIVE DayCharLetters(_, _)
DayCharLetters(s, result) ==
  IF s = "" THEN result
  ELSE DayCharLetters(SubSeq(s, 2, Len(s)),
         IF includes("mtwrf", Char(s, 1)) /\ ~includes(result, Char(s, 1))
           THEN result \o Char(s, 1) ELSE result)

\* result.split('').sort(by index in 'mtwrf').join('') of a duplicate-free
\* string over mtwrf.
SortDays(result) ==
  LET pick(c) == IF includes(result, c) THEN c ELSE ""
  IN  pick("m") \o pick("t") \o pick("w") \o pick("r") \o pick("f")

\* parseDays(str)
parseDays(str) ==
  IF str = "" \/ str = Null THEN ""
  ELSE LET s == RemoveSeparators(trim(toLowerCase(str)))
           named == DayNameLetters(s, "")
       IN  IF named # "" THEN SortDays(named)
           ELSE IF s = "tr" \/ s = "th" THEN "tr"
           ELSE SortDays(DayCharLetters(s, ""))


(***************************************************************************)
(* scheduler.js: the course model                                          *)
(***************************************************************************)
\* Reading a property an object may not have: undefined is falsy.
HasField(obj, k) == k \in DOMAIN obj

\* course.room || ''
RoomOf(course) == IF HasField(course, "room") THEN course.room ELSE ""

\* course.hasRoomOverlap, read by the grid and by the overlap warnings.
HasRoomOverlapOf(course) == IF HasField(course, "hasRoomOverlap") THEN course.hasRoomOverlap ELSE FALSE

\* Object.assign(target, updates)
ObjectAssign(target, updates) ==
  [k \in DOMAIN target \cup DOMAIN updates |-> IF k \in DOMAIN updates THEN updates[k] ELSE target[k]]

\* Numbers that are not integers (fte) are kept in hundredths: 1.0 is 100.
\* NaN is a value of its own.
NaN == 0 - 99999999

\* The digits at the head of s.
RECURSIVE DigitPrefix(_)
DigitPrefix(s) ==
  IF s # "" /\ IsDigit(Char(s, 1)) THEN Char(s, 1) \o DigitPrefix(SubSeq(s, 2, Len(s))) ELSE ""

\* parseFloat(s) in hundredths, for texts with at most two decimals:
\* leading whitespace, an optional sign, digits, an optional fraction; the
\* rest of the text is ignored; NaN when no digit is found.
parseFloat(s) ==
  LET t == TrimLeft(s)
      neg == t # "" /\ Char(t, 1) = "-"
      u == IF t # "" /\ Char(t, 1) \in {"-", "+"} THEN SubSeq(t, 2, Len(t)) ELSE t
      ip == DigitPrefix(u)
      afterInt == SubSeq(u, Len(ip) + 1, Len(u))
      fp == IF afterInt # "" /\ Char(afterInt, 1) = "."
              THEN DigitPrefix(SubSeq(afterInt, 2, Len(afterInt))) ELSE ""
      fp2 == SubSeq(fp \o "00", 1, 2)
      mag == 100 * parseInt(ip) + parseInt(fp2)
  IN  IF ip = "" /\ fp = "" THEN NaN ELSE IF neg THEN 0 - mag ELSE mag

\* extractLastName(faculty)
extractLastName(faculty) ==
  IF faculty = "" \/ faculty = Null THEN "TBA"
  ELSE LET f == trim(faculty)
       IN  IF includes(f, ",") THEN trim(SplitFirst(f, ","))
           ELSE IF includes(f, " ") THEN trim(SplitLast(f, " "))
           ELSE f

\* createCourse(rowData) with the module-level courseIdCounter passed in:
\* the course built (when ok) and the counter afterwards.
createCourse(rowData, counter) ==
  With(parseTime(rowData.startTime), LAMBDA startTime :
  With(parseTime(rowData.endTime), LAMBDA endTime :
  With(parseDays(rowData.days), LAMBDA days :
  With(parseFloat(rowData.fte), LAMBDA fte :
    IF startTime = NullDate \/ endTime = NullDate \/ days = ""
      THEN [ok |-> FALSE, counter |-> counter]
      ELSE [ok |-> TRUE,
            counter |-> counter + 1,
            course |->
              [id |-> counter + 1,
               courseNum |-> rowData.courseNum,
               courseName |-> rowData.courseName,
               faculty |-> extractLastName(rowData.faculty),
               facultyFull |-> rowData.faculty,
               days |-> days,
               startTime |-> startTime,
               endTime |-> endTime,
               length |-> endTime - startTime,
               fte |-> IF fte \in {NaN, 0} THEN 100 ELSE fte,
               visible |-> TRUE,
               hasOverlap |-> FALSE,
               overlappingCourses |-> <<>>]]))))

(***************************************************************************)
(* scheduler.js: conflict detection                                        *)
(***************************************************************************)
\* getCommonDays(days1, days2): the days of days1 that days2 includes.
RECURSIVE getCommonDays(_, _)
getCommonDays(days1, days2) ==
  IF days1 = "" THEN ""
  ELSE (IF includes(days2, Char(days1, 1)) THEN Char(days1, 1) ELSE "")
         \o getCommonDays(SubSeq(days1, 2, Len(days1)), days2)

\* timesOverlap with closed intervals: a course that starts when another
\* ends overlaps it.
timesOverlapClosed(start1, end1, start2, end2) ==
  MinuteOfDay(start1) <= MinuteOfDay(end2) /\ MinuteOfDay(end1) >= MinuteOfDay(start2)

\* timesOverlap(start1, end1, start2, end2)
timesOverlap(start1, end1, start2, end2) ==
  LET s1 == MinuteOfDay(start1)
      e1 == MinuteOfDay(end1)
      s2 == MinuteOfDay(start2)
      e2 == MinuteOfDay(end2)
  IN  s1 < e2 /\ e1 > s2

\* coursesOverlap(course1, course2)
coursesOverlap(course1, course2) ==
  IF Len(getCommonDays(course1.days, course2.days)) = 0 THEN FALSE
  ELSE timesOverlap(course1.startTime, course1.endTime, course2.startTime, course2.endTime)

\* The first loop of checkAllOverlaps: reset of the overlap annotations.
ResetOverlaps(courses) ==
  [k \in 1..Len(courses) |->
     [courses[k] EXCEPT !.hasOverlap = FALSE, !.overlappingCourses = <<>>]]

\* The pair loops of checkAllOverlaps, from the pair (i, j) on.
RECURSIVE OverlapPairs(_, _, _, _)
OverlapPairs(courses, i, j, checkTBA) ==
  IF i > Len(courses) THEN courses
  ELSE IF j > Len(courses) THEN OverlapPairs(courses, i + 1, i + 2, checkTBA)
  ELSE LET course1 == courses[i]
           course2 == courses[j]
       IN  IF course1.faculty # course2.faculty
             THEN OverlapPairs(courses, i, j + 1, checkTBA)
           ELSE IF ~checkTBA /\ (toUpperCase(course1.faculty) = "TBA"
                                   \/ toUpperCase(course1.faculty) = "TBD")
             THEN OverlapPairs(courses, i, j + 1, checkTBA)
           ELSE IF coursesOverlap(course1, course2)
             THEN OverlapPairs(
                    [courses EXCEPT
                       ![i] = [course1 EXCEPT !.hasOverlap = TRUE,
                                 !.overlappingCourses = Append(@, course2.id)],
                       ![j] = [course2 EXCEPT !.hasOverlap = TRUE,
                                 !.overlappingCourses = Append(@, course1.id)]],
                    i, j + 1, checkTBA)
           ELSE OverlapPairs(courses, i, j + 1, checkTBA)

\* checkAllOverlaps that records a conflict at the first course of the pair
\* only.
checkAllOverlapsOneSided(courses, checkTBA) ==
  With(OverlapPairs(ResetOverlaps(courses), 1, 2, checkTBA), LAMBDA checked :
    [k \in 1..Len(checked) |->
       [checked[k] EXCEPT !.overlappingCourses =
          SelectSeq(@, LAMBDA id : \E j \in (k + 1)..Len(checked) : checked[j].id = id)]])

\* checkAllOverlaps without its reset loop.
checkAllOverlapsNoReset(courses, checkTBA) == OverlapPairs(courses, 1, 2, checkTBA)

\* checkAllOverlaps(courses, checkTBA): the list as annotated in place.
checkAllOverlaps(courses, checkTBA) == OverlapPairs(ResetOverlaps(courses), 1, 2, checkTBA)


(***************************************************************************)
(* fileHandler.js: column detection, row normalization, semester detection *)
(*                                                                         *)
(* A row is a sequence of cell texts; row[k] of the model is row[k - 1] of *)
(* the code, and a column index of the model is the code's index + 1.      *)
(* A sheets object is a sequence of [name, rows] in key order; an object   *)
(* keyed by semester name is a sequence of [name, ...] in insertion order. *)
(***************************************************************************)
COLUMN_ALIASES ==
  << [field |-> "courseNum", aliases |-> <<"class", "course", "course number", "number",
        "course num", "course #", "course code", "code", "section">>],
     [field |-> "courseName", aliases |-> <<"description", "name", "course name", "title",
        "course title", "course description">>],
     [field |-> "faculty", aliases |-> <<"faculty", "instructor1", "professor", "teacher",
        "taught by", "lecturer", "staff">>],
     [field |-> "days", aliases |-> <<"days", "day", "meeting days", "meets", "schedule",
        "meeting pattern", "pattern">>],
     [field |-> "startTime", aliases |-> <<"start", "start time", "begin", "from", "begins",
        "start_time", "begin time">>],
     [field |-> "endTime", aliases |-> <<"end", "end time", "until", "ends", "end_time",
        "finish", "finish time">>],
     [field |-> "fte", aliases |-> <<"fte", "load", "teaching load", "workload", "fte1">>],
     [field |-> "term", aliases |-> <<"term", "semester", "session", "academic term",
        "term code">>],
     [field |-> "room", aliases |-> <<"room", "classroom", "location", "building",
        "room number", "room #">>] >>

\* A regular expression of the pattern tables, by shape:
\*   contains /x/   ends /x$/   starts /^x\d*/ or /^x/   starts2 /^x\d{2}/
RegexTest(pattern, text) ==
  CASE pattern.kind = "contains" -> includes(text, pattern.text)
    [] pattern.kind = "ends" ->
         Len(text) >= Len(pattern.text) /\ MatchAt(text, Len(text) - Len(pattern.text) + 1, pattern.text)
    [] pattern.kind = "starts" -> MatchAt(text, 1, pattern.text)
    [] pattern.kind = "starts2" ->
         /\ MatchAt(text, 1, pattern.text)
         /\ Len(text) >= Len(pattern.text) + 2
         /\ IsDigit(Char(text, Len(pattern.text) + 1))
         /\ IsDigit(Char(text, Len(pattern.text) + 2))

\* All patterns carry the i flag; the text is lower-cased before the test.
TERM_CODE_PATTERNS ==
  << [semester |-> "fall", patterns |-> <<[kind |-> "ends", text |-> "sem1"],
        [kind |-> "contains", text |-> "fall"], [kind |-> "contains", text |-> "autumn"],
        [kind |-> "starts", text |-> "fa"]>>],
     [semester |-> "spring", patterns |-> <<[kind |-> "ends", text |-> "sem2"],
        [kind |-> "contains", text |-> "spring"], [kind |-> "starts", text |-> "sp"]>>],
     [semester |-> "winter", patterns |-> <<[kind |-> "ends", text |-> "sem3"],
        [kind |-> "contains", text |-> "winter"], [kind |-> "starts", text |-> "wi"]>>],
     [semester |-> "summer", patterns |-> <<[kind |-> "ends", text |-> "sem4"],
        [kind |-> "contains", text |-> "summer"], [kind |-> "starts", text |-> "su"]>>] >>

SEMESTER_PATTERNS ==
  << [semester |-> "fall", patterns |-> <<[kind |-> "contains", text |-> "fall"],
        [kind |-> "contains", text |-> "autumn"], [kind |-> "starts", text |-> "fa"],
        [kind |-> "starts2", text |-> "f"]>>],
     [semester |-> "spring", patterns |-> <<[kind |-> "contains", text |-> "spring"],
        [kind |-> "starts", text |-> "sp"], [kind |-> "starts2", text |-> "s"]>>],
     [semester |-> "winter", patterns |-> <<[kind |-> "contains", text |-> "winter"],
        [kind |-> "starts", text |-> "wi"], [kind |-> "starts2", text |-> "w"]>>],
     [semester |-> "summer", patterns |-> <<[kind |-> "contains", text |-> "summer"],
        [kind |-> "starts", text |-> "su"], [kind |-> "starts", text |-> "sum"]>>] >>

\* The first semester of a pattern table one of whose patterns matches the
\* text, or Null.
RECURSIVE FirstSemesterFrom(_, _, _)
FirstSemesterFrom(table, text, k) ==
  IF k > Len(table) THEN Null
  ELSE IF \E q \in 1..Len(table[k].patterns) : RegexTest(table[k].patterns[q], text)
    THEN table[k].semester
  ELSE FirstSemesterFrom(table, text, k + 1)

FirstSemesterMatching(table, text) == FirstSemesterFrom(table, toLowerCase(text), 1)

\* detectSemesterFromName(name)
detectSemesterFromName(name) == FirstSemesterMatching(SEMESTER_PATTERNS, toLowerCase(name))

\* detectSemesterFromTermCode(termCode)
detectSemesterFromTermCode(termCode) ==
  IF termCode = "" \/ termCode = Null THEN "unknown"
  ELSE With(trim(termCode), LAMBDA code :
       With(FirstSemesterMatching(TERM_CODE_PATTERNS, code), LAMBDA semester :
         IF semester # Null THEN semester
         ELSE With(ReplaceSpaceRuns(toLowerCase(code), "_"), LAMBDA slug :
                IF slug # "" THEN slug ELSE "unknown")))

\* The alias loop: header === alias || header.includes(alias) for some alias.
MatchesAlias(header, aliases) ==
  \E a \in 1..Len(aliases) : header = aliases[a] \/ includes(header, aliases[a])

\* The loop over COLUMN_ALIASES for the header cell of column i, from field
\* number k on: fields not yet mapped and matched by the cell are bound to i.
RECURSIVE BindFields(_, _, _, _)
BindFields(mapping, header, i, k) ==
  IF k > Len(COLUMN_ALIASES) THEN mapping
  ELSE LET field == COLUMN_ALIASES[k].field
       IN  IF field \notin DOMAIN mapping /\ MatchesAlias(header, COLUMN_ALIASES[k].aliases)
             THEN BindFields(mapping @@ (field :> i), header, i, k + 1)
             ELSE BindFields(mapping, header, i, k + 1)

\* The loop over the cells of the header row, from column i on.
RECURSIVE BindColumns(_, _, _)
BindColumns(mapping, headerRow, i) ==
  IF i > Len(headerRow) THEN mapping
  ELSE LET header == trim(toLowerCase(headerRow[i]))
       IN  IF header = "" THEN BindColumns(mapping, headerRow, i + 1)
           ELSE BindColumns(BindFields(mapping, header, i, 1), headerRow, i + 1)

NoMapping == [k \in {} |-> 0]

\* detectColumnMapping(headerRow): field -> column, for the bound fields.
\* The code returns null for an empty row, which its caller treats as a row
\* binding nothing.
detectColumnMapping(headerRow) == BindColumns(NoMapping, headerRow, 1)

\* getCell(row, index); Null for null.
getCell(row, mapping, field) ==
  IF field \notin DOMAIN mapping THEN Null
  ELSE IF mapping[field] > Len(row) THEN Null
  ELSE trim(row[mapping[field]])

\* getCell(...) || dflt
CellOr(row, mapping, field, dflt) ==
  With(getCell(row, mapping, field), LAMBDA cell : IF cell \in {Null, ""} THEN dflt ELSE cell)

\* isEmptyRow(row)
isEmptyRow(row) == \A k \in 1..Len(row) : row[k] = "" \/ trim(row[k]) = ""

\* The header search without the limit of five rows.
RECURSIVE HeaderRowFromAnyRow(_, _)
HeaderRowFromAnyRow(rows, i) ==
  IF i > Len(rows) THEN 0
  ELSE IF Cardinality(DOMAIN detectColumnMapping(rows[i])) >= 3 THEN i
  ELSE HeaderRowFromAnyRow(rows, i + 1)

\* The header search of normalizeRows: the position of the first row among
\* the first five that binds at least 3 fields, 0 when there is none.
RECURSIVE HeaderRowFrom(_, _)
HeaderRowFrom(rows, i) ==
  IF i > Len(rows) \/ i > 5 THEN 0
  ELSE IF Cardinality(DOMAIN detectColumnMapping(rows[i])) >= 3 THEN i
  ELSE HeaderRowFrom(rows, i + 1)

HeaderRowPos(rows) == HeaderRowFrom(rows, 1)

\* The normalized record of data row i (position in rows).
NormalizedRow(row, i, columnMapping, includeTerm) ==
  With([courseNum |-> CellOr(row, columnMapping, "courseNum", ""),
        courseName |-> CellOr(row, columnMapping, "courseName", ""),
        faculty |-> CellOr(row, columnMapping, "faculty", "TBA"),
        days |-> CellOr(row, columnMapping, "days", ""),
        startTime |-> CellOr(row, columnMapping, "startTime", ""),
        endTime |-> CellOr(row, columnMapping, "endTime", ""),
        fte |-> CellOr(row, columnMapping, "fte", "1"),
        room |-> CellOr(row, columnMapping, "room", "")], LAMBDA base :
    IF ~includeTerm THEN base
    ELSE (IF "term" \in DOMAIN columnMapping
            THEN base @@ [_term |-> CellOr(row, columnMapping, "term", "")]
            ELSE base) @@ [_originalRow |-> row, _originalRowIndex |-> i - 1])

\* The data-row loop of normalizeRows, from position i on.
RECURSIVE NormalizeFrom(_, _, _, _)
NormalizeFrom(rows, i, columnMapping, includeTerm) ==
  IF i > Len(rows) THEN <<>>
  ELSE IF Len(rows[i]) = 0 \/ isEmptyRow(rows[i])
    THEN NormalizeFrom(rows, i + 1, columnMapping, includeTerm)
  ELSE With(NormalizedRow(rows[i], i, columnMapping, includeTerm), LAMBDA normalized :
         (IF normalized.courseNum # "" /\ normalized.days # "" THEN <<normalized>> ELSE <<>>)
           \o NormalizeFrom(rows, i + 1, columnMapping, includeTerm))

\* normalizeRows(rows, includeTerm). The code returns the bare array of rows
\* when includeTerm is false; here the caller takes .rows. headerRowIndex is
\* the code's index; columnMapping is NoMapping for null.
normalizeRows(rows, includeTerm) ==
  IF Len(rows) < 2
    THEN [rows |-> <<>>, headers |-> <<>>, headerRowIndex |-> 0, columnMapping |-> NoMapping]
  ELSE With(HeaderRowPos(rows), LAMBDA h :
         IF h = 0
           THEN [rows |-> <<>>, headers |-> <<>>, headerRowIndex |-> 0, columnMapping |-> NoMapping]
         ELSE With(detectColumnMapping(rows[h]), LAMBDA columnMapping :
                [rows |-> NormalizeFrom(rows, h + 1, columnMapping, includeTerm),
                 headers |-> rows[h],
                 headerRowIndex |-> h - 1,
                 columnMapping |-> columnMapping]))


\* Objects keyed by name, as sequences of [name, value] in insertion order
\* (no key of the model is an integer-like string, which JavaScript would
\* order first).
ObjHas(obj, name) == \E k \in 1..Len(obj) : obj[k].name = name

ObjIndex(obj, name) == CHOOSE k \in 1..Len(obj) : obj[k].name = name

ObjGet(obj, name) == obj[ObjIndex(obj, name)].value

\* obj[name] = value
ObjPut(obj, name, value) ==
  IF ObjHas(obj, name) THEN [obj EXCEPT ![ObjIndex(obj, name)].value = value]
  ELSE Append(obj, [name |-> name, value |-> value])

\* splitByTerm(rows), from row k on: semester -> [rows, originalTermCode].
RECURSIVE SplitByTermFrom(_, _, _)
SplitByTermFrom(semesterMap, rows, k) ==
  IF k > Len(rows) THEN semesterMap
  ELSE With(IF HasField(rows[k], "_term") /\ rows[k]._term # "" THEN rows[k]._term ELSE "",
         LAMBDA termValue :
       With(detectSemesterFromTermCode(termValue), LAMBDA semester :
       With(IF ObjHas(semesterMap, semester) THEN ObjGet(semesterMap, semester)
            ELSE [rows |-> <<>>, originalTermCode |-> termValue], LAMBDA entry :
         SplitByTermFrom(
           ObjPut(semesterMap, semester, [entry EXCEPT !.rows = Append(@, rows[k])]), rows, k + 1))))

splitByTerm(rows) == SplitByTermFrom(<<>>, rows, 1)

\* First strategy of detectSemesters, from sheet k on: sheets whose name
\* matches a semester pattern. acc is [semesters, detectedSemesters].
RECURSIVE BySheetName(_, _, _)
BySheetName(acc, sheets, k) ==
  IF k > Len(sheets) THEN acc
  ELSE With(detectSemesterFromName(sheets[k].name), LAMBDA semester :
         IF semester = Null THEN BySheetName(acc, sheets, k + 1)
         ELSE With(normalizeRows(sheets[k].rows, FALSE).rows, LAMBDA normalizedRows :
                IF Len(normalizedRows) > 0
                  THEN BySheetName([semesters |-> ObjPut(acc.semesters, semester, normalizedRows),
                                    detectedSemesters |-> acc.detectedSemesters + 1], sheets, k + 1)
                  ELSE BySheetName(acc, sheets, k + 1)))

\* Second strategy: does sheet k qualify as the single sheet with a term column?
HasTermColumn(sheet) ==
  With(normalizeRows(sheet.rows, TRUE), LAMBDA result :
    Len(result.rows) > 0 /\ HasField(result.rows[1], "_term"))

\* The semesters and format info the second strategy builds from sheet k.
ByTermColumn(sheet) ==
  With(normalizeRows(sheet.rows, TRUE), LAMBDA result :
  With(splitByTerm(result.rows), LAMBDA semestersByTerm :
    [semesters |-> [k \in 1..Len(semestersByTerm) |->
                      [name |-> semestersByTerm[k].name, value |-> semestersByTerm[k].value.rows]],
     formatInfo |-> [type |-> "single-sheet-term",
                     sheetName |-> sheet.name,
                     headers |-> result.headers,
                     headerRowIndex |-> result.headerRowIndex,
                     columnMapping |-> result.columnMapping,
                     termCodes |-> [k \in 1..Len(semestersByTerm) |->
                                      [name |-> semestersByTerm[k].name,
                                       value |-> semestersByTerm[k].value.originalTermCode]]]]))

\* Third strategy, from sheet k on: every sheet with data.
RECURSIVE ByFallback(_, _, _, _)
ByFallback(semesters, sheets, fileName, k) ==
  IF k > Len(sheets) THEN semesters
  ELSE With(normalizeRows(sheets[k].rows, FALSE).rows, LAMBDA normalizedRows :
       With(detectSemesterFromName(fileName), LAMBDA fileNameSemester :
         IF Len(normalizedRows) = 0 THEN ByFallback(semesters, sheets, fileName, k + 1)
         ELSE ByFallback(
                ObjPut(semesters,
                       IF fileNameSemester # Null THEN fileNameSemester
                       ELSE IF Len(sheets) = 1 THEN "schedule"
                       ELSE ReplaceSpaceRuns(toLowerCase(sheets[k].name), "_"),
                       normalizedRows),
                sheets, fileName, k + 1)))

SeparateSheets == [type |-> "separate-sheets"]

\* detectSemesters(sheets, fileName): [semesters, formatInfo], semesters
\* mapping each semester name to its normalized rows.
RECURSIVE FirstTermSheet(_, _)
FirstTermSheet(sheets, k) ==
  IF k > Len(sheets) THEN 0
  ELSE IF HasTermColumn(sheets[k]) THEN k
  ELSE FirstTermSheet(sheets, k + 1)

detectSemesters(sheets, fileName) ==
  With(BySheetName([semesters |-> <<>>, detectedSemesters |-> 0], sheets, 1), LAMBDA byName :
    IF byName.detectedSemesters # 0
      THEN [semesters |-> byName.semesters, formatInfo |-> SeparateSheets]
    ELSE With(FirstTermSheet(sheets, 1), LAMBDA termSheet :
           IF termSheet # 0 THEN ByTermColumn(sheets[termSheet])
           ELSE [semesters |-> ByFallback(<<>>, sheets, fileName, 1), formatInfo |-> SeparateSheets]))


(***************************************************************************)
(* exporter.js                                                             *)
(***************************************************************************)
HEADERS == <<"Class", "Description", "Faculty", "Days", "Start Time", "End Time", "FTE", "Room">>

\* SEMESTER_TO_TERM[semesterName] || semesterName.toUpperCase()
SemesterToTerm(semesterName) ==
  CASE semesterName = "fall" -> "SEM1"
    [] semesterName = "spring" -> "SEM2"
    [] semesterName = "winter" -> "SEM3"
    [] semesterName = "summer" -> "SEM4"
    [] OTHER -> toUpperCase(semesterName)

\* The text of a number cell: a number kept in hundredths, written as
\* Number.prototype.toString writes it.
NumberToString(n) ==
  IF n = NaN THEN "NaN"
  ELSE LET mag == IF n < 0 THEN 0 - n ELSE n
           frac == mag % 100
           fracText == IF frac = 0 THEN ""
                       ELSE IF frac % 10 = 0 THEN "." \o DigitChar(frac \div 10)
                       ELSE "." \o PadStart2(frac)
       IN  (IF n < 0 THEN "-" ELSE "") \o NatToString(mag \div 100) \o fracText

\* capitalizeFirst(str)
capitalizeFirst(str) == IF str = "" THEN "" ELSE UpperChar(Char(str, 1)) \o SubSeq(str, 2, Len(str))

\* row[index] = value on an array: positions past the end are filled with
\* empty cells.
SetCell(row, index, value) ==
  [k \in 1..(IF index > Len(row) THEN index ELSE Len(row)) |->
     IF k = index THEN value ELSE IF k <= Len(row) THEN row[k] ELSE ""]

\* The assignments of the tracked columns, the same in both branches of
\* createSingleSheetData.
WriteTracked(row, course, columnMapping, termCode) ==
  LET put(r, field, value) == IF field \in DOMAIN columnMapping THEN SetCell(r, columnMapping[field], value) ELSE r
      r1 == put(row, "courseNum", course.courseNum)
      r2 == put(r1, "courseName", course.courseName)
      r3 == put(r2, "faculty", IF course.facultyFull # "" THEN course.facultyFull ELSE course.faculty)
      r4 == put(r3, "days", toUpperCase(course.days))
      r5 == put(r4, "startTime", formatTime(course.startTime))
      r6 == put(r5, "endTime", formatTime(course.endTime))
      r7 == put(r6, "fte", NumberToString(course.fte))
      r8 == put(r7, "room", RoomOf(course))
  IN  put(r8, "term", termCode)

\* Infinity, as a sort key.
Infinity == 100000000

\* course._originalRowIndex || Infinity
OriginalRowIndexOf(course) ==
  IF HasField(course, "_originalRowIndex") /\ course._originalRowIndex # 0
    THEN course._originalRowIndex ELSE Infinity

\* allCourses.sort((a, b) => a.originalRowIndex - b.originalRowIndex): a
\* stable sort; two entries without index compare as equal.
RECURSIVE InsertByRowIndex(_, _)
InsertByRowIndex(sorted, e) ==
  IF sorted = <<>> THEN <<e>>
  ELSE IF sorted[Len(sorted)].originalRowIndex <= e.originalRowIndex THEN Append(sorted, e)
  ELSE Append(InsertByRowIndex(SubSeq(sorted, 1, Len(sorted) - 1), e), sorted[Len(sorted)])

RECURSIVE SortByRowIndex(_)
SortByRowIndex(entries) ==
  IF entries = <<>> THEN <<>>
  ELSE InsertByRowIndex(SortByRowIndex(SubSeq(entries, 1, Len(entries) - 1)), entries[Len(entries)])

\* The collection loop of createSingleSheetData, from semester k on.
\* semesters maps each name to [courses |-> sequence of course objects].
RECURSIVE CollectAllCourses(_, _, _, _)
CollectAllCourses(semesters, termCodes, fallYear, k) ==
  IF k > Len(semesters) THEN <<>>
  ELSE LET semesterName == semesters[k].name
           courses == semesters[k].value.courses
           termCode == IF ObjHas(termCodes, semesterName) /\ ObjGet(termCodes, semesterName) # ""
                         THEN ObjGet(termCodes, semesterName)
                         ELSE NatToString(fallYear) \o SemesterToTerm(semesterName)
       IN  [c \in 1..Len(courses) |->
              [course |-> courses[c], semesterName |-> semesterName, termCode |-> termCode,
               originalRowIndex |-> OriginalRowIndexOf(courses[c])]]
           \o CollectAllCourses(semesters, termCodes, fallYear, k + 1)

\* createSingleSheetData(semesters, formatInfo); fallYear is what the clock
\* gives at the time of the export.
createSingleSheetData(semesters, formatInfo, fallYear) ==
  LET allCourses == SortByRowIndex(CollectAllCourses(semesters, formatInfo.termCodes, fallYear, 1))
      rowOf(e) ==
        IF HasField(e.course, "_originalRow")
          THEN WriteTracked(e.course._originalRow, e.course, formatInfo.columnMapping, e.termCode)
          ELSE WriteTracked([k \in 1..Len(formatInfo.headers) |-> ""], e.course,
                            formatInfo.columnMapping, e.termCode)
  IN  <<formatInfo.headers>> \o [k \in 1..Len(allCourses) |-> rowOf(allCourses[k])]

\* a.localeCompare(b) < 0 for texts of letters, digits and blanks: letters
\* compare without case first, lower case before upper case on a tie.
CollationOrder == " 0123456789abcdefghijklmnopqrstuvwxyz"

RECURSIVE PrimaryCompare(_, _)
PrimaryCompare(a, b) ==
  IF a = "" /\ b = "" THEN 0
  ELSE IF a = "" THEN 0 - 1
  ELSE IF b = "" THEN 1
  ELSE LET x == IndexIn(LowerChar(Char(a, 1)), CollationOrder)
           y == IndexIn(LowerChar(Char(b, 1)), CollationOrder)
       IN  IF x < y THEN 0 - 1 ELSE IF x > y THEN 1
           ELSE PrimaryCompare(SubSeq(a, 2, Len(a)), SubSeq(b, 2, Len(b)))

RECURSIVE CaseCompare(_, _)
CaseCompare(a, b) ==
  IF a = "" \/ b = "" THEN 0
  ELSE IF Char(a, 1) = Char(b, 1) THEN CaseCompare(SubSeq(a, 2, Len(a)), SubSeq(b, 2, Len(b)))
  ELSE IF Char(a, 1) = LowerChar(Char(a, 1)) THEN 0 - 1 ELSE 1

localeCompare(a, b) == IF PrimaryCompare(a, b) # 0 THEN PrimaryCompare(a, b) ELSE CaseCompare(a, b)

\* The comparator of createSheetData: a before b.
SheetOrderBefore(a, b) ==
  IF MinuteOfDay(a.startTime) # MinuteOfDay(b.startTime)
    THEN MinuteOfDay(a.startTime) < MinuteOfDay(b.startTime)
    ELSE localeCompare(a.courseNum, b.courseNum) < 0

RECURSIVE InsertCourse(_, _)
InsertCourse(sorted, c) ==
  IF sorted = <<>> THEN <<c>>
  ELSE IF ~SheetOrderBefore(c, sorted[Len(sorted)]) THEN Append(sorted, c)
  ELSE Append(InsertCourse(SubSeq(sorted, 1, Len(sorted) - 1), c), sorted[Len(sorted)])

RECURSIVE SortCourses(_)
SortCourses(courses) ==
  IF courses = <<>> THEN <<>>
  ELSE InsertCourse(SortCourses(SubSeq(courses, 1, Len(courses) - 1)), courses[Len(courses)])

\* createSheetData(courses)
createSheetData(courses) ==
  LET sortedCourses == SortCourses(courses)
  IN  <<HEADERS>> \o
      [k \in 1..Len(sortedCourses) |->
         LET course == sortedCourses[k]
         IN  <<course.courseNum, course.courseName,
               IF course.facultyFull # "" THEN course.facultyFull ELSE course.faculty,
               toUpperCase(course.days), formatTime(course.startTime), formatTime(course.endTime),
               NumberToString(course.fte), RoomOf(course)>>]

\* exportToExcel(semesters, formatInfo): the workbook written, as the
\* sequence of its sheets [name, data].
exportToExcel(semesters, formatInfo, fallYear) ==
  IF formatInfo.type = "single-sheet-term"
    THEN <<[name |-> formatInfo.sheetName, data |-> createSingleSheetData(semesters, formatInfo, fallYear)]>>
    ELSE [k \in 1..Len(semesters) |->
            [name |-> capitalizeFirst(semesters[k].name),
             data |-> createSheetData(semesters[k].value.courses)]]


(***************************************************************************)
(* grid.js: the slot tables                                                *)
(***************************************************************************)
TIME_SLOTS_mwf ==
  << [label |-> "08:30", startMinutes |-> 510, endMinutes |-> 580],
     [label |-> "09:40", startMinutes |-> 580, endMinutes |-> 650],
     [label |-> "10:50", startMinutes |-> 650, endMinutes |-> 740],
     [label |-> "12:20", startMinutes |-> 740, endMinutes |-> 790],
     [label |-> "13:10", startMinutes |-> 790, endMinutes |-> 860],
     [label |-> "14:20", startMinutes |-> 860, endMinutes |-> 930],
     [label |-> "15:30", startMinutes |-> 930, endMinutes |-> 1080],
     [label |-> "18:00", startMinutes |-> 1080, endMinutes |-> 1320] >>

TIME_SLOTS_tr ==
  << [label |-> "08:30", startMinutes |-> 510, endMinutes |-> 610],
     [label |-> "10:10", startMinutes |-> 610, endMinutes |-> 740],
     [label |-> "12:20", startMinutes |-> 740, endMinutes |-> 840],
     [label |-> "14:00", startMinutes |-> 840, endMinutes |-> 940],
     [label |-> "15:40", startMinutes |-> 940, endMinutes |-> 1080],
     [label |-> "18:00", startMinutes |-> 1080, endMinutes |-> 1320] >>

DayLetters == {"m", "t", "w", "r", "f"}

\* timeFrames[day], as createTimeFrames builds it from dayConfigs.
timeFrames(day) == IF day \in {"m", "w", "f"} THEN TIME_SLOTS_mwf ELSE TIME_SLOTS_tr

\* parseTimeLabel(label)
parseTimeLabel(label) == parseInt(SplitFirst(label, ":")) * 60 + parseInt(SplitLast(label, ":"))

\* null for a frame; a frame of timeFrames[day] is named by its position.
NoFrame == 0

\* findTimeFrame, first loop: the first frame from k on that contains
\* courseMinutes.
RECURSIVE ContainingFrame(_, _, _)
ContainingFrame(frames, courseMinutes, k) ==
  IF k > Len(frames) THEN NoFrame
  ELSE IF courseMinutes >= frames[k].startMinutes /\ courseMinutes < frames[k].endMinutes THEN k
  ELSE ContainingFrame(frames, courseMinutes, k + 1)

\* Math.abs on integers.
MathAbs(n) == IF n < 0 THEN 0 - n ELSE n

\* findTimeFrame, second loop from frame k on: [closestFrame, closestDistance].
RECURSIVE ClosestFrame(_, _, _, _)
ClosestFrame(frames, courseMinutes, k, closest) ==
  IF k > Len(frames) THEN closest
  ELSE ClosestFrame(frames, courseMinutes, k + 1,
         IF MathAbs(courseMinutes - frames[k].startMinutes) < closest.closestDistance
           THEN [closestFrame |-> k,
                 closestDistance |-> MathAbs(courseMinutes - frames[k].startMinutes)]
           ELSE closest)

\* findTimeFrame that takes the closest frame at any distance.
findTimeFrameAnyDistance(day, startTime) ==
  IF day \notin DayLetters THEN NoFrame
  ELSE IF ContainingFrame(timeFrames(day), MinuteOfDay(startTime), 1) # NoFrame
    THEN ContainingFrame(timeFrames(day), MinuteOfDay(startTime), 1)
  ELSE ClosestFrame(timeFrames(day), MinuteOfDay(startTime), 1,
                    [closestFrame |-> NoFrame, closestDistance |-> Infinity]).closestFrame

\* findTimeFrame(day, startTime): the position of the frame, or NoFrame.
\* timeFrames has the five day letters for keys.
findTimeFrame(day, startTime) ==
  IF day \notin DayLetters THEN NoFrame
  ELSE IF ContainingFrame(timeFrames(day), MinuteOfDay(startTime), 1) # NoFrame
    THEN ContainingFrame(timeFrames(day), MinuteOfDay(startTime), 1)
  ELSE IF ClosestFrame(timeFrames(day), MinuteOfDay(startTime), 1,
                       [closestFrame |-> NoFrame, closestDistance |-> Infinity]).closestDistance <= 30
    THEN ClosestFrame(timeFrames(day), MinuteOfDay(startTime), 1,
                      [closestFrame |-> NoFrame, closestDistance |-> Infinity]).closestFrame
  ELSE NoFrame

\* renderSchedule, the body of its loop for one course: the frame that gets
\* a block on each day of course.days, and whether the block goes to the
\* homeless list.  shown is isVisible && matchesFilter.
PlaceCourse(course, shown) ==
  IF ~shown THEN [frames |-> <<>>, homeless |-> FALSE]
  ELSE [frames |-> [k \in 1..Len(course.days) |-> findTimeFrame(Char(course.days, k), course.startTime)],
        homeless |-> \A k \in 1..Len(course.days) :
                       findTimeFrame(Char(course.days, k), course.startTime) = NoFrame]

(***************************************************************************)
(* scheduler.js: FTE per faculty                                           *)
(***************************************************************************)
\* Math.round(num / den) for den > 0: the floor of the quotient plus a half.
MathRound(num, den) == (2 * num + den) \div (2 * den)

\* calculateFacultyFTE, first loop from course k on: fteByFaculty, faculty
\* -> total in hundredths.
RECURSIVE SumFTE(_, _, _)
SumFTE(fteByFaculty, courses, k) ==
  IF k > Len(courses) THEN fteByFaculty
  ELSE SumFTE(ObjPut(fteByFaculty, courses[k].faculty,
                     (IF ObjHas(fteByFaculty, courses[k].faculty)
                           /\ ObjGet(fteByFaculty, courses[k].faculty) # 0
                        THEN ObjGet(fteByFaculty, courses[k].faculty) ELSE 0) + courses[k].fte),
              courses, k + 1)

\* calculateFacultyFTE(courses).  A total in hundredths is the total times
\* 100; Math.round rounds it to a whole number of hundredths.
calculateFacultyFTE(courses) ==
  [k \in 1..Len(SumFTE(<<>>, courses, 1)) |->
     [name |-> SumFTE(<<>>, courses, 1)[k].name,
      value |-> MathRound(SumFTE(<<>>, courses, 1)[k].value, 1)]]

(***************************************************************************)
(* scheduler.js: the time blocks                                           *)
(***************************************************************************)
\* getTimeBlocks: mwfSlots and trSlots.
mwfSlots ==
  << [index |-> 4, length |-> 7, time |-> "08:30"],
     [index |-> 11, length |-> 8, time |-> "09:40"],
     [index |-> 18, length |-> 7, time |-> "10:50"],
     [index |-> 32, length |-> 7, time |-> "12:20"],
     [index |-> 39, length |-> 7, time |-> "01:10"],
     [index |-> 46, length |-> 7, time |-> "02:00"],
     [index |-> 61, length |-> 4, time |-> "03:40"] >>

trSlots ==
  << [index |-> 4, length |-> 10, time |-> "08:30"],
     [index |-> 14, length |-> 10, time |-> "10:10"],
     [index |-> 27, length |-> 10, time |-> "12:20"],
     [index |-> 37, length |-> 10, time |-> "01:10"],
     [index |-> 47, length |-> 10, time |-> "02:00"],
     [index |-> 61, length |-> 4, time |-> "03:40"] >>

\* getTimeBlocks: slots.map(...), with allBlocks[i] ten minutes times i after
\* the base time 7:50 of 2020-01-01.
SlotBlocks(slots) ==
  [k \in 1..Len(slots) |->
     [startTime |-> (7 * 60 + 50) + slots[k].index * 10,
      endTime |-> (7 * 60 + 50) + slots[k].index * 10 + slots[k].length * 10,
      label |-> slots[k].time]]

\* getTimeBlocks()
getTimeBlocks == [mwf |-> SlotBlocks(mwfSlots), tr |-> SlotBlocks(trSlots)]

\* null for the result of findCourseTimeFrame.
NoTimeFrame == [blockIndex |-> 0 - 1]

\* findCourseTimeFrame: the loop for a matching block, from position i
\* (counted from 0, as the code counts) on.
RECURSIVE MatchingBlock(_, _, _, _, _)
MatchingBlock(blocks, courseStart, i, isMWF, isTR) ==
  IF i >= Len(blocks) THEN NoTimeFrame
  ELSE IF /\ courseStart >= MinuteOfDay(blocks[i + 1].startTime)
          /\ courseStart < MinuteOfDay(blocks[i + 1].endTime)
    THEN [blockIndex |-> i, label |-> blocks[i + 1].label,
          isMWF |-> isMWF /\ ~isTR, isTR |-> isTR /\ ~isMWF]
  ELSE MatchingBlock(blocks, courseStart, i + 1, isMWF, isTR)

\* The blocks findCourseTimeFrame searches.
BlocksFor(timeBlocks, isMWF, isTR) ==
  IF isMWF /\ ~isTR THEN timeBlocks.mwf
  ELSE IF isTR /\ ~isMWF THEN timeBlocks.tr
  ELSE timeBlocks.mwf \o timeBlocks.tr

\* findCourseTimeFrame(course, timeBlocks)
findCourseTimeFrame(course, timeBlocks) ==
  MatchingBlock(
    BlocksFor(timeBlocks,
              includes(course.days, "m") \/ includes(course.days, "w") \/ includes(course.days, "f"),
              includes(course.days, "t") \/ includes(course.days, "r")),
    MinuteOfDay(course.startTime), 0,
    includes(course.days, "m") \/ includes(course.days, "w") \/ includes(course.days, "f"),
    includes(course.days, "t") \/ includes(course.days, "r"))

(***************************************************************************)
(* scheduler.js: moves                                                     *)
(***************************************************************************)
\* updateCourseTime that sets the start and leaves the end where it was.
updateCourseTimeKeepsEnd(course, newStartTimeStr) ==
  [course EXCEPT !.startTime = parseInt(SplitFirst(newStartTimeStr, ":")) * 60
                                 + parseInt(SplitLast(newStartTimeStr, ":"))]

\* updateCourseTime(course, newStartTimeStr)
updateCourseTime(course, newStartTimeStr) ==
  LET hours == parseInt(SplitFirst(newStartTimeStr, ":"))
      minutes == parseInt(SplitLast(newStartTimeStr, ":"))
      newStart == hours * 60 + minutes
      newEnd == newStart + course.length
  IN  [course EXCEPT !.startTime = newStart, !.endTime = newEnd]

\* canMoveCourse that lets a course of several days other than mwf and tr
\* move within its own days.
canMoveCourseOwnDays(course, targetTimeSlot, targetDay) ==
  IF Len(course.days) = 1 THEN TRUE ELSE includes(course.days, targetDay)

\* canMoveCourse(course, targetTimeSlot, targetDay)
canMoveCourse(course, targetTimeSlot, targetDay) ==
  LET courseDays == course.days
      isMWF == courseDays = "mwf"
      isTR == courseDays = "tr"
  IN  IF Len(courseDays) = 1 THEN TRUE
      ELSE IF isMWF THEN includes("mwf", targetDay)
      ELSE IF isTR THEN includes("tr", targetDay)
      ELSE FALSE

CantSwitchNote == "Can't switch MWF and TR courses. Change day/time manually."

UnusualDaysNote == "Course has unusual days. Change day/time manually."

\* canMoveToTarget that shows the note for an MWF course dropped on t or r
\* and goes on.
canMoveToTargetNoReturn(course, targetDay, targetTime) ==
  IF Len(course.days) = 1 THEN [ok |-> TRUE, note |-> Null]
  ELSE IF course.days = "mwf"
    THEN [ok |-> TRUE, note |-> IF includes("mwf", targetDay) THEN Null ELSE CantSwitchNote]
  ELSE IF course.days = "tr"
    THEN [ok |-> includes("tr", targetDay),
          note |-> IF includes("tr", targetDay) THEN Null ELSE CantSwitchNote]
  ELSE [ok |-> FALSE, note |-> UnusualDaysNote]

\* canMoveToTarget(course, targetDay, targetTime): the boolean returned and
\* the note shown (Null when showNote is not called).
canMoveToTarget(course, targetDay, targetTime) ==
  LET days == course.days
  IN  IF Len(days) = 1 THEN [ok |-> TRUE, note |-> Null]
      ELSE IF days = "mwf"
        THEN IF ~includes("mwf", targetDay) THEN [ok |-> FALSE, note |-> CantSwitchNote]
             ELSE [ok |-> TRUE, note |-> Null]
      ELSE IF days = "tr"
        THEN IF ~includes("tr", targetDay) THEN [ok |-> FALSE, note |-> CantSwitchNote]
             ELSE [ok |-> TRUE, note |-> Null]
      ELSE [ok |-> FALSE, note |-> UnusualDaysNote]


(***************************************************************************)
(* controls.js: validation and the edit modal's update object              *)
(***************************************************************************)
\* validateDaysValue(value)
validateDaysValue(value) ==
  /\ \A i \in 1..Len(value) : Char(value, i) \in DayLetters
  /\ \A i, j \in 1..Len(value) : i # j => Char(value, i) # Char(value, j)
  /\ Len(value) <= 5

\* The updates object saveEditModal builds for editingCourse from the
\* inputs of the form (daysValue already trimmed and lower-cased).
EditUpdates(editingCourse, form, daysValue) ==
  LET u0 == NoMapping
      num == trim(form.courseNum)
      u1 == IF num # "" /\ num # editingCourse.courseNum THEN u0 @@ [courseNum |-> num] ELSE u0
      name == trim(form.courseName)
      u2 == IF name # "" /\ name # editingCourse.courseName THEN u1 @@ [courseName |-> name] ELSE u1
      u3 == IF form.faculty # "" /\ form.faculty # editingCourse.faculty
              THEN u2 @@ [faculty |-> form.faculty, facultyFull |-> form.faculty] ELSE u2
      u4 == IF daysValue # "" /\ daysValue # editingCourse.days THEN u3 @@ [days |-> daysValue] ELSE u3
      startTime == IF form.start # "" THEN parseTime(form.start) ELSE NullDate
      u5 == IF startTime # NullDate THEN u4 @@ [startTime |-> startTime] ELSE u4
      lengthMinutes == IF form.length # "" THEN parseInt(form.length) ELSE 0
      u6 == IF lengthMinutes # 0 /\ HasField(u5, "startTime")
              THEN u5 @@ [endTime |-> u5.startTime + lengthMinutes, length |-> lengthMinutes]
            ELSE IF lengthMinutes # 0
              THEN u5 @@ [endTime |-> editingCourse.startTime + lengthMinutes, length |-> lengthMinutes]
            ELSE u5
      u7 == IF form.fte # "" /\ parseFloat(form.fte) # editingCourse.fte
              THEN u6 @@ [fte |-> parseFloat(form.fte)] ELSE u6
  IN  IF trim(form.room) # RoomOf(editingCourse) THEN u7 @@ [room |-> trim(form.room)] ELSE u7

\* updateCourse(course, updates): the course object afterwards.
updateCourse(course, updates) ==
  LET assigned == ObjectAssign(course, updates)
  IN  IF HasField(updates, "startTime") \/ HasField(updates, "endTime") \/ HasField(updates, "days")
        THEN [assigned EXCEPT !.length = assigned.endTime - assigned.startTime]
        ELSE assigned

(***************************************************************************)
(* app.js: rendering                                                       *)
(***************************************************************************)
\* [...new Set(list)]
RECURSIVE Unique(_)
Unique(list) ==
  IF list = <<>> THEN <<>>
  ELSE LET init == Unique(SubSeq(list, 1, Len(list) - 1))
       IN  IF \E k \in 1..Len(init) : init[k] = list[Len(list)] THEN init
           ELSE Append(init, list[Len(list)])

\* list.join(sep)
RECURSIVE join(_, _)
join(list, sep) ==
  IF list = <<>> THEN ""
  ELSE IF Len(list) = 1 THEN list[1]
  ELSE list[1] \o sep \o join(Tail(list), sep)

\* courses.filter(c => c.hasOverlap).map(c => c.faculty)
RECURSIVE FacultyOverlaps(_)
FacultyOverlaps(courses) ==
  IF courses = <<>> THEN <<>>
  ELSE (IF courses[1].hasOverlap THEN <<courses[1].faculty>> ELSE <<>>) \o FacultyOverlaps(Tail(courses))

\* courses.filter(c => c.hasRoomOverlap).map(c => c.room)
RECURSIVE RoomOverlaps(_)
RoomOverlaps(courses) ==
  IF courses = <<>> THEN <<>>
  ELSE (IF HasRoomOverlapOf(courses[1]) THEN <<RoomOf(courses[1])>> ELSE <<>>) \o RoomOverlaps(Tail(courses))

\* updateOverlapWarnings(courses): the text it passes to showNote.
updateOverlapWarnings(courses) ==
  LET rooms == Unique(RoomOverlaps(courses))
      faculty == Unique(FacultyOverlaps(courses))
      w1 == IF Len(rooms) > 0 THEN <<"Room conflicts: " \o join(rooms, ", ")>> ELSE <<>>
      w2 == IF Len(faculty) > 0 THEN <<"Faculty conflicts: " \o join(faculty, ", ")>> ELSE <<>>
  IN  join(w1 \o w2, " | ")


(***************************************************************************)
(* The application: app.js, controls.js, dragDrop.js                       *)
(*                                                                         *)
(* Course objects live in heap, indexed by id; the semester map, the       *)
(* selection, the dragged course and the course under edit hold ids.       *)
(* Objects nothing refers to any more are dropped from heap.  The faculty  *)
(* palette, colours, filters and font size are left out.                   *)
(***************************************************************************)
\* Bounds of the model.
MaxCourseId == 8
MaxPending == 2
MaxEdits == 2
MaxLoads == 2
MaxSteps == 4

\* null for a reference to a course.
NoCourse == 0

\* The files a user may pick: [name, sheets] as the reader delivers them.
TermRows ==
  << <<"Class", "Instructor1", "Days", "Start", "End", "Term", "Room", "Notes">>,
     <<"CS101", "Smith, J.", "MWF", "8:30 AM", "9:30 AM", "2024SEM1", "R1", "lab A">>,
     <<"CS102", "J. Smith", "MW", "9:00 AM", "10:00 AM", "2023SEM1", "R1", "">>,
     <<"CS999", "Doe", "TR", "noon", "1:00 PM", "2024SEM1", "", "">>,
     <<"CS201", "Jones", "TR", "10:00", "9:00", "2024SEM2", "R2", "x">> >>

FallRows ==
  << <<"Course", "Faculty", "Days", "Start", "End">>,
     <<"MA101", "Lee", "F", "1:10 PM", "2:00 PM">>,
     <<"MA102", "Lee", "wed, mon", "8:30", "9:20">> >>

SpringRows ==
  << <<"Course", "Faculty", "Days", "Start", "End">>,
     <<"MA201", "TBA", "TR", "2:00 PM", "3:15 PM">>,
     <<"MA202", "", "R", "2:30 PM", "3:30 PM">> >>

Files ==
  << [name |-> "registrar.xlsx", sheets |-> <<[name |-> "Export", rows |-> TermRows]>>],
     [name |-> "plan.XLSX",
      sheets |-> <<[name |-> "Fall 2024", rows |-> FallRows], [name |-> "Spring 2025", rows |-> SpringRows]>>],
     [name |-> "notes.csv", sheets |-> <<[name |-> "Sheet1", rows |-> << <<"hello">>, <<"world">> >>]>>],
     [name |-> "plan.pdf", sheets |-> <<>>] >>

VARIABLES
  courseIdCounter,   \* scheduler.js: courseIdCounter
  heap,              \* the course objects alive, by id
  semesters,         \* state.semesters: name -> [courses: ids]
  activeSemester,    \* state.activeSemester
  formatInfo,        \* state.formatInfo
  fileLoaded,        \* state.fileLoaded
  checkTBAOverlap,   \* state.settings.checkTBAOverlap
  selectedCourse,    \* state.selectedCourse
  draggedCourse,     \* dragDrop.js: draggedCourse
  dragging,          \* a drag of a course block is under way in the browser
  editingCourse,     \* controls.js: editingCourse
  isAddingNew,       \* controls.js: isAddingNew
  modalHidden,       \* editModal.hidden
  editNote,          \* editNote.textContent
  note,              \* noteTextEl.textContent
  blocks,            \* the courses with a block on the grid (renderSchedule)
  pendingLoads,      \* handleFile calls awaiting parseFile, as file indexes
  loads,             \* handleFile calls so far
  steps,             \* actions of the user so far
  loadedFile,        \* the file of the last completed load (0: none)
  edits,             \* adds, edits and moves since the last completed load
  exported,          \* the workbook the step just taken wrote (exportToExcel)
  probe              \* inputs and results of the function specifications

vars == <<courseIdCounter, heap, semesters, activeSemester, formatInfo, fileLoaded,
          checkTBAOverlap, selectedCourse, draggedCourse, dragging, editingCourse, isAddingNew,
          modalHidden, editNote, note, blocks, pendingLoads, loads, steps, loadedFile, edits,
          exported, probe>>

appVars == <<courseIdCounter, heap, semesters, activeSemester, formatInfo, fileLoaded,
             checkTBAOverlap, selectedCourse, draggedCourse, dragging, editingCourse, isAddingNew,
             modalHidden, editNote, note, blocks, pendingLoads, loads, steps, loadedFile, edits,
             exported>>

NoFormatInfo == [type |-> "null"]

NoExport == [workbook |-> <<>>, file |-> 0, edits |-> 0]

InitApp ==
  /\ courseIdCounter = 0
  /\ heap = <<>>
  /\ semesters = <<>>
  /\ activeSemester = Null
  /\ formatInfo = NoFormatInfo
  /\ fileLoaded = FALSE
  /\ checkTBAOverlap = TRUE
  /\ selectedCourse = NoCourse
  /\ draggedCourse = NoCourse
  /\ dragging = FALSE
  /\ editingCourse = NoCourse
  /\ isAddingNew = FALSE
  /\ modalHidden = TRUE
  /\ editNote = ""
  /\ note = ""
  /\ blocks = {}
  /\ pendingLoads = <<>>
  /\ loads = 0
  /\ steps = 0
  /\ loadedFile = 0
  /\ edits = 0
  /\ exported = NoExport

Init == InitApp /\ probe = <<>>

\* The ids a semester map holds.
IdsOf(sems) ==
  UNION {{sems[k].value.courses[j] : j \in 1..Len(sems[k].value.courses)} : k \in 1..Len(sems)}

\* The course objects of a list of ids.
Objects(h, ids) == [k \in 1..Len(ids) |-> h[ids[k]]]

\* h after the objects of list objs were written back.
WriteBack(h, objs) ==
  [i \in DOMAIN h |->
     IF \E k \in 1..Len(objs) : objs[k].id = i
       THEN objs[CHOOSE k \in 1..Len(objs) : objs[k].id = i]
       ELSE h[i]]

\* h with the objects of objs added.
Allocate(h, objs) ==
  [i \in DOMAIN h \cup {objs[k].id : k \in 1..Len(objs)} |->
     IF i \in DOMAIN h THEN h[i] ELSE objs[CHOOSE k \in 1..Len(objs) : objs[k].id = i]]

\* h without the objects no reference in refs reaches.
Collect(h, refs) == [i \in DOMAIN h \cap refs |-> h[i]]

\* The semester map with course objects in place of ids, as the exporter
\* receives it.
WithObjects(sems, h) ==
  [k \in 1..Len(sems) |->
     [name |-> sems[k].name, value |-> [courses |-> Objects(h, sems[k].value.courses)]]]

\* renderCurrentSemester(): the heap, the note and the blocks afterwards.
renderCurrentSemester(h, sems, active, checkTBA, oldNote, oldBlocks) ==
  IF active = Null \/ ~ObjHas(sems, active) THEN [heap |-> h, note |-> oldNote, blocks |-> oldBlocks]
  ELSE LET courses == checkAllOverlaps(Objects(h, ObjGet(sems, active).courses), checkTBA)
       IN  [heap |-> WriteBack(h, courses),
            note |-> updateOverlapWarnings(courses),
            blocks |-> {courses[k].id : k \in 1..Len(courses)}]

\* getCurrentCourses()
getCurrentCourses(sems, active) ==
  IF active # Null /\ ObjHas(sems, active) THEN ObjGet(sems, active).courses ELSE <<>>

\* h without the objects that nothing refers to after the step.
Live(h) ==
  Collect(h, IdsOf(semesters') \cup blocks' \cup {selectedCourse', draggedCourse', editingCourse'})

\* parseFile(file): does the extension of the name have a reader?
Supported(file) == toLowerCase(SplitLast(file.name, ".")) \in {"csv", "xlsx", "xls"}

\* The row loop that ends at the first row createCourse rejects.
RECURSIVE CreateCoursesUntilRejected(_, _, _)
CreateCoursesUntilRejected(rows, k, counter) ==
  IF k > Len(rows) THEN [courses |-> <<>>, counter |-> counter]
  ELSE With(createCourse(rows[k], counter), LAMBDA made :
         IF ~made.ok THEN [courses |-> <<>>, counter |-> counter]
         ELSE With(CreateCoursesUntilRejected(rows, k + 1, made.counter), LAMBDA rest :
                [rest EXCEPT !.courses = <<made.course>> \o @]))

\* The row loop of handleFile for one semester, from row k on:
\* [courses, counter].
RECURSIVE CreateCourses(_, _, _)
CreateCourses(rows, k, counter) ==
  IF k > Len(rows) THEN [courses |-> <<>>, counter |-> counter]
  ELSE With(createCourse(rows[k], counter), LAMBDA made :
       With(CreateCourses(rows, k + 1, made.counter), LAMBDA rest :
         IF made.ok THEN [rest EXCEPT !.courses = <<made.course>> \o @] ELSE rest))

\* The semester loop of handleFile, from semester k on:
\* [semesters, courses (all objects created), counter].
RECURSIVE CreateSemesters(_, _, _)
CreateSemesters(detected, k, counter) ==
  IF k > Len(detected) THEN [semesters |-> <<>>, courses |-> <<>>, counter |-> counter]
  ELSE With(CreateCourses(detected[k].value, 1, counter), LAMBDA made :
       With(CreateSemesters(detected, k + 1, made.counter), LAMBDA rest :
         [semesters |-> <<[name |-> detected[k].name,
                           value |-> [courses |-> [j \in 1..Len(made.courses) |-> made.courses[j].id]]]>>
                          \o rest.semesters,
          courses |-> made.courses \o rest.courses,
          counter |-> rest.counter]))

\* What a completed parse of file builds.
Loaded(file, counter) ==
  With(detectSemesters(file.sheets, file.name), LAMBDA detected :
    [formatInfo |-> detected.formatInfo] @@ CreateSemesters(detected.semesters, 1, counter))

\* No modal is shown and no drag is under way: the page takes clicks.
Idle == modalHidden /\ ~dragging

\* handleFile(file) up to its await: the note, and the parse is under way.
HandleFile(f) ==
  /\ steps < MaxSteps
  /\ steps' = steps + 1
  /\ Idle
  /\ loads < MaxLoads
  /\ loads' = loads + 1
  /\ Len(pendingLoads) < MaxPending
  /\ note' = "Loading file..."
  /\ pendingLoads' = Append(pendingLoads, f)
  /\ UNCHANGED <<courseIdCounter, heap, semesters, activeSemester, formatInfo,
                 fileLoaded, checkTBAOverlap, selectedCourse, draggedCourse,
                 editingCourse, isAddingNew, modalHidden, editNote, blocks,
                 loadedFile, edits, probe, dragging>>
  /\ exported' = NoExport

Without(seq, k) == SubSeq(seq, 1, k - 1) \o SubSeq(seq, k + 1, Len(seq))

\* handleFile(file) from the await on, when parseFile delivered the sheets.
LoadCompletes(k) ==
  /\ UNCHANGED steps
  /\ k \in 1..Len(pendingLoads)
  /\ Supported(Files[pendingLoads[k]])
  /\ \E built \in {Loaded(Files[pendingLoads[k]], courseIdCounter)} :
       \E active \in {IF Len(built.semesters) > 0 THEN built.semesters[1].name ELSE activeSemester} :
         \E rendered \in {renderCurrentSemester(Allocate(heap, built.courses), built.semesters,
                                                active, checkTBAOverlap, note, blocks)} :
           /\ built.counter <= MaxCourseId
           /\ courseIdCounter' = built.counter
           /\ formatInfo' = built.formatInfo
           /\ semesters' = built.semesters
           /\ activeSemester' = active
           /\ fileLoaded' = TRUE
           /\ note' = rendered.note
           /\ blocks' = rendered.blocks
           /\ UNCHANGED <<selectedCourse, draggedCourse, editingCourse>>
           /\ heap' = Live(rendered.heap)
  /\ loadedFile' = pendingLoads[k]
  /\ edits' = 0
  /\ pendingLoads' = Without(pendingLoads, k)
  /\ UNCHANGED <<checkTBAOverlap, isAddingNew, modalHidden, editNote, probe, loads,
                 dragging>>
  /\ exported' = NoExport

\* handleFile whose failed load leaves an emptied semester map behind.
LoadFailsClearing(k) ==
  /\ UNCHANGED steps
  /\ k \in 1..Len(pendingLoads)
  /\ note' = "Error loading file: Failed to read file"
  /\ pendingLoads' = Without(pendingLoads, k)
  /\ semesters' = <<>>
  /\ UNCHANGED <<courseIdCounter, heap, activeSemester, formatInfo,
                 fileLoaded, checkTBAOverlap, selectedCourse, draggedCourse,
                 editingCourse, isAddingNew, modalHidden, editNote, blocks,
                 loadedFile, edits, probe, loads, dragging>>
  /\ exported' = NoExport

\* handleFile(file) from the await on, when parseFile threw: the extension
\* has no reader, or the read failed.
LoadFails(k) ==
  /\ UNCHANGED steps
  /\ k \in 1..Len(pendingLoads)
  /\ note' = IF Supported(Files[pendingLoads[k]])
               THEN "Error loading file: Failed to read file"
               ELSE "Error loading file: Unsupported file format: "
                      \o toLowerCase(SplitLast(Files[pendingLoads[k]].name, "."))
  /\ pendingLoads' = Without(pendingLoads, k)
  /\ UNCHANGED <<courseIdCounter, heap, semesters, activeSemester, formatInfo,
                 fileLoaded, checkTBAOverlap, selectedCourse, draggedCourse,
                 editingCourse, isAddingNew, modalHidden, editNote, blocks,
                 loadedFile, edits, probe, loads, dragging>>
  /\ exported' = NoExport

\* The inputs of the model's user.
DropLabels == {"08:30", "09:40", "10:10", "12:20", "18:00"}

FallYears == {2024}

Form(courseNum, faculty, days, start, length, room) ==
  [courseNum |-> courseNum, courseName |-> "", faculty |-> faculty, days |-> days,
   start |-> start, length |-> length, fte |-> "1", room |-> room]

\* What the user may have in the inputs of the modal at a save.
Forms ==
  { Form("", "", "", "", "", ""),
    Form("CS300", "Smith", "FM", "21:50", "240", "R1"),
    Form("CS300", "Smith", "mm", "21:50", "240", ""),
    Form("CS300", "__new__", "FM", "21:50", "240", ""),
    Form("CS300", "", "FM", "21:50", "240", ""),
    Form("CS300", "Smith", "", "21:50", "240", ""),
    Form("CS300", "Smith", "FM", "", "240", ""),
    Form("CS300", "Smith", "FM", "21:50", "", ""),
    Form("CS300", "Smith", "FM", "9:99", "240", ""),
    Form("", "", " fm ", "", "", ""),
    Form("", "", "", "", "", "R1") }

\* switchSemester(semesterName), from a click on a semester tab.
SwitchSemester(semesterName) ==
  /\ steps < MaxSteps
  /\ steps' = steps + 1
  /\ Idle
  /\ ObjHas(semesters, semesterName)
  /\ activeSemester' = semesterName
  /\ selectedCourse' = NoCourse
  /\ \E rendered \in {renderCurrentSemester(heap, semesters, semesterName, checkTBAOverlap, note, blocks)} :
       /\ note' = rendered.note
       /\ blocks' = rendered.blocks
       /\ UNCHANGED <<semesters, draggedCourse, editingCourse>>
       /\ heap' = Live(rendered.heap)
  /\ UNCHANGED <<courseIdCounter, formatInfo, fileLoaded, checkTBAOverlap,
                 isAddingNew, modalHidden, editNote, pendingLoads, loadedFile, edits,
                 probe, loads, dragging>>
  /\ exported' = NoExport

\* The click handler of a course block: selectCourse(course).
SelectCourse(id) ==
  /\ steps < MaxSteps
  /\ steps' = steps + 1
  /\ Idle
  /\ id \in blocks
  /\ selectedCourse' = id
  /\ UNCHANGED <<semesters, blocks, draggedCourse, editingCourse>>
  /\ heap' = Live(heap)
  /\ UNCHANGED <<courseIdCounter, activeSemester, formatInfo, fileLoaded,
                 checkTBAOverlap, isAddingNew, modalHidden, editNote, note,
                 pendingLoads, loadedFile, edits, probe, loads, dragging>>
  /\ exported' = NoExport

\* The Escape key: selectCourse(null) in app.js, and closeEditModal() in
\* controls.js when the modal is shown.
Escape ==
  /\ steps < MaxSteps
  /\ steps' = steps + 1
  /\ ~dragging
  /\ selectedCourse' = NoCourse
  /\ editingCourse' = IF modalHidden THEN editingCourse ELSE NoCourse
  /\ isAddingNew' = IF modalHidden THEN isAddingNew ELSE FALSE
  /\ modalHidden' = TRUE
  /\ UNCHANGED <<semesters, blocks, draggedCourse>>
  /\ heap' = Live(heap)
  /\ UNCHANGED <<courseIdCounter, activeSemester, formatInfo, fileLoaded,
                 checkTBAOverlap, editNote, note, pendingLoads, loadedFile, edits,
                 probe, loads, dragging>>
  /\ exported' = NoExport

\* updateSettings that stores the setting and leaves the grid as it is.
UpdateSettingsNoRender(value) ==
  /\ steps < MaxSteps
  /\ steps' = steps + 1
  /\ Idle
  /\ value # checkTBAOverlap
  /\ checkTBAOverlap' = value
  /\ UNCHANGED <<courseIdCounter, heap, semesters, activeSemester, formatInfo,
                 fileLoaded, selectedCourse, draggedCourse, editingCourse, isAddingNew,
                 modalHidden, editNote, note, blocks, pendingLoads, loadedFile, edits,
                 probe, loads, dragging>>
  /\ exported' = NoExport

\* updateSettings('checkTBAOverlap', checked), from the checkbox.
UpdateSettings(value) ==
  /\ steps < MaxSteps
  /\ steps' = steps + 1
  /\ Idle
  /\ value # checkTBAOverlap
  /\ checkTBAOverlap' = value
  /\ \E rendered \in {renderCurrentSemester(heap, semesters, activeSemester, value, note, blocks)} :
       /\ note' = rendered.note
       /\ blocks' = rendered.blocks
       /\ UNCHANGED <<semesters, selectedCourse, draggedCourse, editingCourse>>
       /\ heap' = Live(rendered.heap)
  /\ UNCHANGED <<courseIdCounter, activeSemester, formatInfo, fileLoaded, isAddingNew,
                 modalHidden, editNote, pendingLoads, loadedFile, edits, probe, loads,
                 dragging>>
  /\ exported' = NoExport

\* The save button (enabled by a load): exportToExcel(state.semesters,
\* state.formatInfo).
Export(fallYear) ==
  /\ steps < MaxSteps
  /\ steps' = steps + 1
  /\ Idle
  /\ fileLoaded
  /\ exported' = [workbook |-> exportToExcel(WithObjects(semesters, heap), formatInfo, fallYear),
                  file |-> loadedFile, edits |-> edits]
  /\ UNCHANGED <<courseIdCounter, heap, semesters, activeSemester, formatInfo,
                 fileLoaded, checkTBAOverlap, selectedCourse, draggedCourse,
                 editingCourse, isAddingNew, modalHidden, editNote, note, blocks,
                 pendingLoads, loadedFile, edits, probe, loads, dragging>>

\* openEditModal(isNew), from the edit and add buttons (enabled by a load).
OpenEditModal(isNew) ==
  /\ steps < MaxSteps
  /\ steps' = steps + 1
  /\ Idle
  /\ fileLoaded
  /\ isAddingNew' = isNew
  /\ IF isNew
       THEN /\ editingCourse' = NoCourse
            /\ editNote' = ""
            /\ modalHidden' = FALSE
            /\ note' = note
       ELSE IF selectedCourse = NoCourse
         THEN /\ note' = "Select a course to edit it."
              /\ UNCHANGED <<editingCourse, editNote, modalHidden>>
         ELSE /\ editingCourse' = selectedCourse
              /\ editNote' = ""
              /\ modalHidden' = FALSE
              /\ note' = note
  /\ UNCHANGED <<semesters, blocks, selectedCourse, draggedCourse>>
  /\ heap' = Live(heap)
  /\ UNCHANGED <<courseIdCounter, activeSemester, formatInfo, fileLoaded,
                 checkTBAOverlap, pendingLoads, loadedFile, edits, probe, loads,
                 dragging>>
  /\ exported' = NoExport

\* closeEditModal(), from the close and cancel buttons and the overlay.
CloseEditModal ==
  /\ steps < MaxSteps
  /\ steps' = steps + 1
  /\ ~modalHidden
  /\ modalHidden' = TRUE
  /\ editingCourse' = NoCourse
  /\ isAddingNew' = FALSE
  /\ UNCHANGED <<semesters, blocks, selectedCourse, draggedCourse>>
  /\ heap' = Live(heap)
  /\ UNCHANGED <<courseIdCounter, activeSemester, formatInfo, fileLoaded,
                 checkTBAOverlap, editNote, note, pendingLoads, loadedFile, edits,
                 probe, loads, dragging>>
  /\ exported' = NoExport

\* A return of saveEditModal after a message in the modal.
RejectSave(message) ==
  /\ editNote' = message
  /\ UNCHANGED <<courseIdCounter, heap, semesters, activeSemester, formatInfo,
                 fileLoaded, checkTBAOverlap, selectedCourse, draggedCourse,
                 editingCourse, isAddingNew, modalHidden, note, blocks, pendingLoads,
                 loadedFile, edits, probe, loads, dragging>>
  /\ exported' = NoExport

\* addCourse(courseData) and the closeEditModal() that follows it in
\* saveEditModal.  With an active semester that the map no longer holds,
\* addCourse throws after createCourse, and the modal stays.
AddCourse(courseData) ==
  \E made \in {createCourse(courseData, courseIdCounter)} :
    /\ made.counter <= MaxCourseId
    /\ UNCHANGED <<activeSemester, formatInfo, fileLoaded, checkTBAOverlap,
                   draggedCourse, editNote, pendingLoads, loadedFile, probe, loads,
                   dragging>>
    /\ exported' = NoExport
    /\ courseIdCounter' = made.counter
    /\ IF made.ok /\ activeSemester # Null
         THEN IF ~ObjHas(semesters, activeSemester)
                THEN UNCHANGED <<heap, semesters, selectedCourse, editingCourse, isAddingNew,
                                 modalHidden, note, blocks, edits>>
                ELSE \E sems \in {ObjPut(semesters, activeSemester,
                                    [courses |-> Append(ObjGet(semesters, activeSemester).courses,
                                                        made.course.id)])} :
                     \E rendered \in {renderCurrentSemester(Allocate(heap, <<made.course>>), sems,
                                        activeSemester, checkTBAOverlap, note, blocks)} :
                       /\ semesters' = sems
                       /\ note' = rendered.note
                       /\ blocks' = rendered.blocks
                       /\ selectedCourse' = made.course.id
                       /\ editingCourse' = NoCourse
                       /\ isAddingNew' = FALSE
                       /\ modalHidden' = TRUE
                       /\ edits' = edits + 1
                       /\ heap' = Live(rendered.heap)
         ELSE /\ editingCourse' = NoCourse
              /\ isAddingNew' = FALSE
              /\ modalHidden' = TRUE
              /\ UNCHANGED <<semesters, selectedCourse, note, blocks, edits>>
              /\ heap' = Live(heap)

\* The edit branch of saveEditModal: updateCourse(editingCourse, updates)
\* when there are updates, then closeEditModal().  updateCourse throws at
\* the faculty list when the active semester is no longer in the map.
EditCourse(form, daysValue) ==
  \E updates \in {EditUpdates(heap[editingCourse], form, daysValue)} :
    /\ UNCHANGED <<courseIdCounter, activeSemester, formatInfo, fileLoaded,
                   checkTBAOverlap, draggedCourse, editNote, pendingLoads, loadedFile,
                   probe, loads, dragging>>
    /\ exported' = NoExport
    /\ IF DOMAIN updates = {}
         THEN /\ editingCourse' = NoCourse
              /\ isAddingNew' = FALSE
              /\ modalHidden' = TRUE
              /\ UNCHANGED <<semesters, selectedCourse, note, blocks, edits>>
              /\ heap' = Live(heap)
         ELSE \E course \in {updateCourse(heap[editingCourse], updates)} :
                IF HasField(updates, "faculty") /\ activeSemester # Null
                     /\ ~ObjHas(semesters, activeSemester)
                  THEN /\ heap' = WriteBack(heap, <<course>>)
                       /\ edits' = edits + 1
                       /\ UNCHANGED <<semesters, selectedCourse, editingCourse, isAddingNew, modalHidden,
                                      note, blocks>>
                  ELSE \E rendered \in {renderCurrentSemester(WriteBack(heap, <<course>>), semesters,
                                          activeSemester, checkTBAOverlap, note, blocks)} :
                         /\ note' = rendered.note
                         /\ blocks' = rendered.blocks
                         /\ selectedCourse' = editingCourse
                         /\ editingCourse' = NoCourse
                         /\ isAddingNew' = FALSE
                         /\ modalHidden' = TRUE
                         /\ edits' = edits + 1
                         /\ UNCHANGED semesters
                         /\ heap' = Live(rendered.heap)

\* saveEditModal(), with the inputs of the modal as form.
SaveEditModal(form) ==
  /\ steps < MaxSteps
  /\ steps' = steps + 1
  /\ ~modalHidden
  /\ edits < MaxEdits
  /\ LET daysValue == toLowerCase(trim(form.days))
     IN  IF daysValue # "" /\ ~validateDaysValue(daysValue)
           THEN RejectSave("Days must be MTWRF with no repeats (5 or fewer days).")
         ELSE IF form.faculty = "__new__"
           THEN RejectSave("Please enter a faculty name or select an existing one.")
         ELSE IF isAddingNew
           THEN IF trim(form.courseNum) = "" THEN RejectSave("Course number is required.")
                ELSE IF form.faculty = "" THEN RejectSave("Please select a faculty member.")
                ELSE IF daysValue = "" THEN RejectSave("Days are required.")
                ELSE IF form.start = "" THEN RejectSave("Start time is required.")
                ELSE IF form.length = "" THEN RejectSave("Length is required.")
                ELSE IF parseTime(form.start) = NullDate THEN RejectSave("Invalid start time.")
                ELSE AddCourse([courseNum |-> trim(form.courseNum),
                                courseName |-> trim(form.courseName),
                                faculty |-> form.faculty,
                                days |-> daysValue,
                                startTime |-> formatTime24(parseTime(form.start)),
                                endTime |-> formatTime24(parseTime(form.start) + parseInt(form.length)),
                                fte |-> IF form.fte = "" THEN "1" ELSE form.fte,
                                room |-> trim(form.room)])
         ELSE EditCourse(form, daysValue)

\* handleDragStart(e), on the block of course id.
HandleDragStart(id) ==
  /\ steps < MaxSteps
  /\ steps' = steps + 1
  /\ Idle
  /\ id \in blocks
  /\ LET courses == getCurrentCourses(semesters, activeSemester)
         found == \E k \in 1..Len(courses) : courses[k] = id
     IN  IF ~found
           THEN /\ draggedCourse' = NoCourse
                /\ UNCHANGED <<selectedCourse, note, dragging>>
         ELSE IF heap[id].days # "mwf" /\ heap[id].days # "tr" /\ Len(heap[id].days) > 1
           THEN /\ draggedCourse' = id
                /\ note' = UnusualDaysNote
                /\ UNCHANGED <<selectedCourse, dragging>>
         ELSE /\ draggedCourse' = id
              /\ selectedCourse' = id
              /\ dragging' = TRUE
              /\ UNCHANGED note
  /\ UNCHANGED <<semesters, blocks, editingCourse>>
  /\ heap' = Live(heap)
  /\ UNCHANGED <<courseIdCounter, activeSemester, formatInfo, fileLoaded,
                 checkTBAOverlap, isAddingNew, modalHidden, editNote, pendingLoads,
                 loadedFile, edits, probe, loads>>
  /\ exported' = NoExport

\* handleDragEnd(e), which the browser fires when a drag it started ends.
HandleDragEnd ==
  /\ UNCHANGED steps
  /\ dragging
  /\ dragging' = FALSE
  /\ draggedCourse' = NoCourse
  /\ UNCHANGED <<semesters, blocks, selectedCourse, editingCourse>>
  /\ heap' = Live(heap)
  /\ UNCHANGED <<courseIdCounter, activeSemester, formatInfo, fileLoaded,
                 checkTBAOverlap, isAddingNew, modalHidden, editNote, note,
                 pendingLoads, loadedFile, edits, probe, loads>>
  /\ exported' = NoExport

\* The course handleDrop leaves when the move is allowed.
Dropped(course, targetDay, targetTime) ==
  LET targetMinutes == parseTimeLabel(targetTime)
      newTimeStr == PadStart2(targetMinutes \div 60) \o ":" \o PadStart2(targetMinutes % 60)
      moved == updateCourseTime(course, newTimeStr)
  IN  IF Len(moved.days) = 1 THEN [moved EXCEPT !.days = targetDay] ELSE moved

\* handleDrop(e), on the time frame of targetDay labelled targetTime.
HandleDrop(targetDay, targetTime) ==
  /\ steps < MaxSteps
  /\ steps' = steps + 1
  /\ modalHidden
  /\ edits < MaxEdits
  /\ draggedCourse # NoCourse
  /\ \E k \in 1..Len(timeFrames(targetDay)) : timeFrames(targetDay)[k].label = targetTime
  /\ UNCHANGED <<courseIdCounter, semesters, activeSemester, formatInfo, fileLoaded,
                 checkTBAOverlap, draggedCourse, editingCourse, isAddingNew,
                 modalHidden, editNote, pendingLoads, loadedFile, probe, loads,
                 dragging>>
  /\ exported' = NoExport
  /\ \E check \in {canMoveToTarget(heap[draggedCourse], targetDay, targetTime)} :
       IF ~check.ok
         THEN /\ note' = check.note
              /\ UNCHANGED <<heap, blocks, selectedCourse, edits>>
         ELSE \E rendered \in {renderCurrentSemester(
                                 WriteBack(heap, <<Dropped(heap[draggedCourse], targetDay, targetTime)>>),
                                 semesters, activeSemester, checkTBAOverlap, note, blocks)} :
                /\ blocks' = rendered.blocks
                /\ selectedCourse' = draggedCourse
                /\ note' = ""
                /\ edits' = edits + 1
                /\ heap' = Live(rendered.heap)

Next ==
  \/ \E f \in 1..Len(Files) : HandleFile(f)
  \/ \E k \in 1..MaxPending : LoadCompletes(k)
  \/ \E k \in 1..MaxPending : LoadFails(k)
  \/ \E k \in 1..Len(semesters) : SwitchSemester(semesters[k].name)
  \/ \E id \in blocks : SelectCourse(id)
  \/ Escape
  \/ \E value \in BOOLEAN : UpdateSettings(value)
  \/ \E fallYear \in FallYears : Export(fallYear)
  \/ \E isNew \in BOOLEAN : OpenEditModal(isNew)
  \/ CloseEditModal
  \/ \E form \in Forms : SaveEditModal(form)
  \/ \E id \in blocks : HandleDragStart(id)
  \/ HandleDragEnd
  \/ \E targetDay \in DayLetters, targetTime \in DropLabels : HandleDrop(targetDay, targetTime)

Spec == Init /\ [][Next]_vars


(***************************************************************************)
(* Conflict detection on its own: checkAllOverlaps applied, once and then  *)
(* again, to course lists drawn from a bounded set.                        *)
(***************************************************************************)
\* Bounds: the longest list, and the runs of checkAllOverlaps on one list.
MaxCourses == 3
MaxRuns == 2

\* What varies from course to course: the faculty key, the days, the
\* interval and the room.  The intervals hold a pair that overlaps, a pair
\* back to back, one whose end is before its start (a loaded row may give
\* it) and one that ends after midnight (an add may give it).  Lists of two take every combination; longer lists a part of them,
\* smaller as the list grows.
OverlapTemplates(n) ==
  IF n = 2
    THEN [faculty : {"Smith", "TBA", "tbd"}, days : {"mw", "wf", "tr"},
          time : {<<540, 600>>, <<600, 660>>, <<570, 630>>}, room : {"", "R1"}]
  ELSE IF n = 3
    THEN [faculty : {"Smith", "TBA"}, days : {"mw", "tr"},
          time : {<<540, 600>>, <<600, 660>>, <<570, 630>>, <<620, 560>>, <<1310, 1550>>},
          room : {""}]
  ELSE [faculty : {"Smith"}, days : {"mw", "tr"},
        time : {<<540, 600>>, <<600, 660>>, <<570, 630>>}, room : {""}]

\* The course object of the i-th template of a list: as createCourse builds
\* it, with a room when the edit modal gave it one, and with the marks of an
\* earlier detection when stale.
OverlapCourse(template, i, n, stale) ==
  [id |-> i, courseNum |-> "CS10" \o DigitChar(i), courseName |-> "",
   faculty |-> template.faculty, facultyFull |-> template.faculty,
   days |-> template.days,
   startTime |-> template.time[1], endTime |-> template.time[2],
   length |-> template.time[2] - template.time[1],
   fte |-> 100, visible |-> TRUE,
   hasOverlap |-> stale,
   overlappingCourses |-> IF stale THEN <<(i % n) + 1>> ELSE <<>>]
  @@ (IF template.room # "" THEN [room |-> template.room] ELSE NoMapping)

InitOverlap ==
  /\ InitApp
  /\ \E n \in 2..MaxCourses, checkTBA \in BOOLEAN, stale \in BOOLEAN :
       \E pick \in [1..n -> OverlapTemplates(n)] :
         \E list \in {[i \in 1..n |-> OverlapCourse(pick[i], i, n, stale)]} :
           probe = [runs |-> 0, checkTBA |-> checkTBA, input |-> list,
                    courses |-> list, previous |-> list]

\* One call of checkAllOverlaps on the list.
CheckAllOverlaps ==
  /\ probe.runs < MaxRuns
  /\ probe' = [probe EXCEPT !.runs = @ + 1,
                            !.previous = probe.courses,
                            !.courses = checkAllOverlaps(probe.courses, probe.checkTBA)]
  /\ UNCHANGED appVars

NextOverlap == CheckAllOverlaps

SpecOverlap == InitOverlap /\ [][NextOverlap]_vars

(***************************************************************************)
(* The move checks on their own: canMoveCourse and canMoveToTarget applied *)
(* to a course, a target day and a slot label.                             *)
(***************************************************************************)
\* The letters of a set of positions of "mtwrf", in that order.
RECURSIVE DaysOfPositions(_, _)
DaysOfPositions(positions, k) ==
  IF k > 5 THEN ""
  ELSE (IF k \in positions THEN Char("mtwrf", k) ELSE "") \o DaysOfPositions(positions, k + 1)

\* Every day string parseDays can give, and some in another order, as the
\* edit modal may store them.
MoveDays ==
  {DaysOfPositions(positions, 1) : positions \in (SUBSET (1..5)) \ {{}}}
    \cup {"fm", "rt", "fwm", "wm", "rmt"}

\* Every label a time frame carries.
MoveLabels ==
  {TIME_SLOTS_mwf[k].label : k \in 1..Len(TIME_SLOTS_mwf)}
    \cup {TIME_SLOTS_tr[k].label : k \in 1..Len(TIME_SLOTS_tr)}

InitMove ==
  /\ InitApp
  /\ \E days \in MoveDays, targetDay \in DayLetters, targetTime \in MoveLabels :
       probe = [checked |-> FALSE, days |-> days, targetDay |-> targetDay,
                targetTime |-> targetTime, highlight |-> FALSE, drop |-> FALSE, note |-> Null]

\* handleDragOver and handleDrop put the same course and frame to their
\* checks.
CheckMove ==
  /\ ~probe.checked
  /\ \E course \in {[days |-> probe.days]} :
       \E check \in {canMoveToTarget(course, probe.targetDay, probe.targetTime)} :
         probe' = [probe EXCEPT !.checked = TRUE,
                     !.highlight = canMoveCourse(course, probe.targetTime, probe.targetDay),
                     !.drop = check.ok,
                     !.note = check.note]
  /\ UNCHANGED appVars

NextMove == CheckMove

SpecMove == InitMove /\ [][NextMove]_vars

(***************************************************************************)
(* The slot mappers on their own: renderSchedule (findTimeFrame over       *)
(* TIME_SLOTS) and findCourseTimeFrame over the tables of getTimeBlocks,   *)
(* applied to a course that starts at any minute of the day.               *)
(***************************************************************************)
\* The days of the course: each day alone, the two standard patterns, and
\* patterns that mix the two tables.
GridDays == {"m", "t", "w", "r", "f", "mwf", "tr", "mw", "mtwrf", "fm"}

InitGrid ==
  /\ InitApp
  /\ \E days \in GridDays, startTime \in 0..1439, shown \in BOOLEAN :
       probe = [course |-> [days |-> days, startTime |-> startTime], shown |-> shown,
                rendered |-> FALSE, frames |-> <<>>, homeless |-> FALSE,
                mapped |-> FALSE, timeFrame |-> NoTimeFrame]

\* renderSchedule places the course.
RenderSchedule ==
  /\ ~probe.rendered
  /\ \E placed \in {PlaceCourse(probe.course, probe.shown)} :
       probe' = [probe EXCEPT !.rendered = TRUE, !.frames = placed.frames,
                              !.homeless = placed.homeless]
  /\ UNCHANGED appVars

\* findCourseTimeFrame maps the course.
FindCourseTimeFrame ==
  /\ ~probe.mapped
  /\ probe' = [probe EXCEPT !.mapped = TRUE,
                            !.timeFrame = findCourseTimeFrame(probe.course, getTimeBlocks)]
  /\ UNCHANGED appVars

NextGrid == RenderSchedule \/ FindCourseTimeFrame

SpecGrid == InitGrid /\ [][NextGrid]_vars


(***************************************************************************)
(* The text conversions on their own: parseTime applied to what formatTime *)
(* and formatTime24 write for a time of day and to texts of hours and      *)
(* minutes out of range, and parseDays applied to day texts.               *)
(***************************************************************************)
\* Texts of the clock shape whose hour or minute is out of range.
OutOfRangeTimes ==
  {"24:00", "25:30", "9:60", "9:99", "960", "2460", "13:00 PM", "12:75 AM", "0:61 am", "99.99"}

\* Day texts: the letter patterns of two days, in both cases and with
\* separators, and day names.
DayTexts ==
  {"TH", "th", "Th", "T H", "TR", "tr", "T, R", "MWF", "Tuesday Thursday", "Tue Thu",
   "Thu", "FM", "xyz"}

InitParse ==
  /\ InitApp
  /\ \/ \E date \in 0..1439 :
          probe = [date |-> date, text |-> "", parsed |-> NullDate, daysText |-> Null,
                   days |-> Null, done |-> FALSE]
     \/ \E text \in OutOfRangeTimes :
          probe = [date |-> NullDate, text |-> text, parsed |-> NullDate, daysText |-> Null,
                   days |-> Null, done |-> FALSE]
     \/ \E daysText \in DayTexts :
          probe = [date |-> NullDate, text |-> Null, parsed |-> NullDate, daysText |-> daysText,
                   days |-> Null, done |-> FALSE]

\* formatTime(date) or formatTime24(date) writes the text.
FormatTime(hour24) ==
  /\ probe.date # NullDate
  /\ probe.text = ""
  /\ probe' = [probe EXCEPT !.text = IF hour24 THEN formatTime24(probe.date)
                                                ELSE formatTime(probe.date)]
  /\ UNCHANGED appVars

\* parseTime(text) reads it.
ParseTime ==
  /\ probe.text \notin {"", Null}
  /\ ~probe.done
  /\ probe' = [probe EXCEPT !.parsed = parseTime(probe.text), !.done = TRUE]
  /\ UNCHANGED appVars

\* parseDays(daysText)
ParseDays ==
  /\ probe.daysText # Null
  /\ ~probe.done
  /\ probe' = [probe EXCEPT !.days = parseDays(probe.daysText), !.done = TRUE]
  /\ UNCHANGED appVars

NextParse == (\E hour24 \in BOOLEAN : FormatTime(hour24)) \/ ParseTime \/ ParseDays

SpecParse == InitParse /\ [][NextParse]_vars


(***************************************************************************)
(* FTE aggregation on its own: the rows of a sheet with an FTE column are  *)
(* normalized, made into courses, and summed by calculateFacultyFTE.       *)
(***************************************************************************)
\* Bound: the data rows of the sheet.
MaxFteRows == 2

\* What the FTE cell of a row may hold; Null for a row that ends before the
\* FTE column.
FteCells == {Null, "", "0", "0.5", "1.25", "abc", "-0.5"}

\* The sheet of data rows whose faculty and FTE cells are given.
FteSheet(faculty, cells) ==
  << <<"Course", "Faculty", "Days", "Start", "End", "FTE">> >>
    \o [i \in 1..Len(cells) |->
          <<"CS10" \o DigitChar(i), faculty[i], "MW", "9:00", "10:00">>
            \o (IF cells[i] = Null THEN <<>> ELSE <<cells[i]>>)]

InitFte ==
  /\ InitApp
  /\ \E n \in 1..MaxFteRows :
       \E faculty \in [1..n -> {"Smith", "Lee, A."}], cells \in [1..n -> FteCells] :
         probe = [faculty |-> faculty, cells |-> cells, done |-> FALSE,
                  courses |-> <<>>, fteData |-> <<>>]

\* The rows are normalized and made into courses (handleFile), and
\* renderCurrentSemester calls calculateFacultyFTE on them.
CalculateFacultyFTE ==
  /\ ~probe.done
  /\ \E made \in {CreateCourses(normalizeRows(FteSheet(probe.faculty, probe.cells), FALSE).rows, 1, 0)} :
       probe' = [probe EXCEPT !.done = TRUE, !.courses = made.courses,
                              !.fteData = calculateFacultyFTE(made.courses)]
  /\ UNCHANGED appVars

NextFte == CalculateFacultyFTE

SpecFte == InitFte /\ [][NextFte]_vars


(***************************************************************************)
(* Loading on its own: detectSemesters, the row loops of handleFile and    *)
(* exportToExcel applied to files of one or two sheets drawn from a set of *)
(* sheet names and sheet contents.                                         *)
(***************************************************************************)
\* Bound: the sheets of a file.
MaxSheets == 2

\* A sheet with the header in its first row; the second and the third data
\* row are rejected (no time of day, no course number), the fourth has no
\* day letter.
PlainRows ==
  << <<"Course", "Faculty", "Days", "Start", "End">>,
     <<"MA101", "Lee", "F", "1:10 PM", "2:00 PM">>,
     <<"MA102", "Lee", "MW", "noon", "9:20">>,
     <<"", "Lee", "F", "8:30", "9:20">>,
     <<"MA103", "Kim", "xyz", "8:30", "9:20">>,
     <<"MA104", "Kim", "TR", "10:10", "11:40">> >>

\* A sheet with a term column whose rows go fall, spring, fall; the third
\* data row is rejected (no end time).
TermSheetRows ==
  << <<"Class", "Instructor1", "Days", "Start", "End", "Term", "Notes">>,
     <<"CS101", "Smith, J.", "MWF", "8:30 AM", "9:30 AM", "2024SEM1", "lab A">>,
     <<"CS201", "Jones", "TR", "10:10", "11:40", "2024SEM2", "">>,
     <<"CS999", "Doe", "TR", "9:00", "", "2024SEM1", "">>,
     <<"CS102", "J. Smith", "MW", "9:40", "10:40", "2024SEM1", "">> >>

\* A sheet with two title rows above the header.
TitledRows ==
  << <<"Department plan">>,
     <<"Schedule of classes">>,
     <<"Course", "Faculty", "Days", "Start", "End">>,
     <<"PH101", "Ray", "MWF", "9:40", "10:40">>,
     <<"Number", "Teacher", "Day", "From", "Until">>,
     <<"PH102", "Ray", "T", "14:00", "15:30">> >>

\* A sheet whose header is its sixth row.
LateHeaderRows ==
  << <<"Department plan">>, <<"2024">>, <<"draft">>, <<"v2">>, <<"internal">>,
     <<"Course", "Faculty", "Days", "Start", "End">>,
     <<"PH201", "Ray", "MWF", "9:40", "10:40">> >>

\* A sheet with no header.
UnreadableRows == << <<"hello">>, <<"world">> >>

\* Sheets whose first header cell holds the aliases of two fields.
SharedColumnRows ==
  << <<"Course Name", "Days", "Start", "End", "Term Code">>,
     <<"MA301", "M", "9:00", "10:00", "2024SEM1">> >>

TwoColumnRows ==
  << <<"Course Name", "Meeting Days">>,
     <<"MA302", "M">> >>

SheetRows ==
  {PlainRows, TermSheetRows, TitledRows, LateHeaderRows, UnreadableRows, SharedColumnRows,
   TwoColumnRows}

SheetNames == {"Fall 2024", "Autumn", "Spring", "Export", "My Sheet"}

FileNames == {"data.xlsx", "fall2024.xlsx"}

NoBuilt == [formatInfo |-> NoFormatInfo, semesters |-> <<>>, courses |-> <<>>, counter |-> 0]

InitLoad ==
  /\ InitApp
  /\ \E fileName \in FileNames, n \in 1..MaxSheets :
       \E names \in [1..n -> SheetNames], rows \in [1..n -> SheetRows] :
         /\ \A i, j \in 1..n : i # j => names[i] # names[j]
         /\ probe = [file |-> [name |-> fileName,
                               sheets |-> [k \in 1..n |-> [name |-> names[k], rows |-> rows[k]]]],
                     loaded |-> FALSE, detected |-> <<>>, built |-> NoBuilt,
                     saved |-> FALSE, workbook |-> <<>>]

\* handleFile from the await on: detectSemesters and the createCourse loops.
LoadFile ==
  /\ ~probe.loaded
  /\ \E detected \in {detectSemesters(probe.file.sheets, probe.file.name)} :
       probe' = [probe EXCEPT !.loaded = TRUE,
                              !.detected = detected.semesters,
                              !.built = [formatInfo |-> detected.formatInfo]
                                          @@ CreateSemesters(detected.semesters, 1, 0)]
  /\ UNCHANGED appVars

\* The save button: exportToExcel on what the load built.
ExportFile(fallYear) ==
  /\ probe.loaded
  /\ ~probe.saved
  /\ probe' = [probe EXCEPT !.saved = TRUE,
                            !.workbook = exportToExcel(WithObjects(probe.built.semesters, probe.built.courses),
                                                       probe.built.formatInfo, fallYear)]
  /\ UNCHANGED appVars

NextLoad == LoadFile \/ \E fallYear \in FallYears : ExportFile(fallYear)

SpecLoad == InitLoad /\ [][NextLoad]_vars


(***************************************************************************)
(* Properties                                                              *)
(***************************************************************************)
\* The columns of the sheet that formatInfo.columnMapping binds to a field.
TrackedColumns(mapping) == {mapping[field] : field \in DOMAIN mapping}

\* The row of the loaded sheet that has courseNum in the course-number column.
OriginalRowsOf(rows, mapping, courseNum) ==
  {o \in 2..Len(rows) : Len(rows[o]) >= mapping["courseNum"] /\ rows[o][mapping["courseNum"]] = courseNum}

\* C1: a file in single-sheet-term mode that is loaded and exported with no
\* edit in between gives, for each course, a row whose cells outside the
\* tracked columns are the cells of the course's original row, and whose
\* tracked text columns (course number, faculty, room, term) carry the
\* normalized values of that row.
RoundTripSingleSheet ==
  (exported.file # 0 /\ exported.edits = 0 /\ formatInfo.type = "single-sheet-term") =>
    LET rows == Files[exported.file].sheets[1].rows
        mapping == formatInfo.columnMapping
        data == exported.workbook[1].data
    IN  \A r \in 2..Len(data) :
          \E o \in OriginalRowsOf(rows, mapping, data[r][mapping["courseNum"]]) :
            /\ \A c \in 1..Len(rows[o]) :
                 c \notin TrackedColumns(mapping) => (c <= Len(data[r]) /\ data[r][c] = rows[o][c])
            /\ \A field \in {"courseNum", "faculty", "room", "term"} \cap DOMAIN mapping :
                 data[r][mapping[field]] = rows[o][mapping[field]]

\* Two courses meet on some day.
ShareDay(c, d) == \E day \in DayLetters : includes(c.days, day) /\ includes(d.days, day)

\* The start and the end of a course in minutes since midnight, as the clock
\* of its Date shows them.
StartMinute(c) == MinuteOfDay(c.startTime)

EndMinute(c) == MinuteOfDay(c.endTime)

\* The half-open intervals of two courses overlap.
IntervalsOverlap(c, d) == StartMinute(c) < EndMinute(d) /\ EndMinute(c) > StartMinute(d)

\* The faculty conflict of two courses, as C2 words it.
FacultyConflict(c, d, includeTBA) ==
  /\ c.faculty = d.faculty
  /\ includeTBA \/ toLowerCase(c.faculty) \notin {"tba", "tbd"}
  /\ ShareDay(c, d)
  /\ IntervalsOverlap(c, d)

\* C2: after checkAllOverlaps(courses, includeTBA) a course has its overlap
\* flag set exactly when the list holds another course with the same faculty
\* key (not TBA or TBD in any case when includeTBA is false), a day in common
\* and start(c) < end(d) and end(c) > start(d); courses back to back are not
\* in conflict.
FacultyOverlapFlag ==
  probe.runs >= 1 =>
    \A i \in 1..Len(probe.courses) :
      probe.courses[i].hasOverlap
        <=> \E j \in 1..Len(probe.input) :
              j # i /\ FacultyConflict(probe.input[i], probe.input[j], probe.checkTBA)

\* Reached: a list with two courses of one teacher back to back on a common
\* day, the first unflagged and the second flagged for a third course.
FacultyOverlapFlagWitness ==
  /\ probe.runs >= 1
  /\ \E i, j \in 1..Len(probe.courses) :
       /\ i # j
       /\ probe.input[i].faculty = probe.input[j].faculty
       /\ ShareDay(probe.input[i], probe.input[j])
       /\ EndMinute(probe.input[i]) = StartMinute(probe.input[j])
       /\ ~probe.courses[i].hasOverlap
       /\ probe.courses[j].hasOverlap

\* id is one of the peers of course c.
IsPeer(id, c) == \E k \in 1..Len(c.overlappingCourses) : c.overlappingCourses[k] = id

\* C3: after any run of checkAllOverlaps, a's id is in b's peer list exactly
\* when b's id is in a's peer list, for all courses a and b of the list.
ConflictSymmetry ==
  probe.runs >= 1 =>
    \A a, b \in 1..Len(probe.courses) :
      IsPeer(probe.courses[a].id, probe.courses[b]) <=> IsPeer(probe.courses[b].id, probe.courses[a])

\* Reached: a course in conflict with two others, after a list that came
\* with stale peers.
ConflictSymmetryWitness ==
  /\ probe.runs >= 1
  /\ probe.input[1].hasOverlap
  /\ \E a \in 1..Len(probe.courses) : Len(probe.courses[a].overlappingCourses) = 2

\* C4: a second run of checkAllOverlaps on the unchanged list with the same
\* setting gives the flags and peer lists of the first, whatever marks the
\* courses carried before the first run, and no peer is listed twice.
DetectionIdempotent ==
  probe.runs >= 2 =>
    /\ probe.courses = probe.previous
    /\ \A i \in 1..Len(probe.courses) :
         \A k, l \in 1..Len(probe.courses[i].overlappingCourses) :
           k # l => probe.courses[i].overlappingCourses[k] # probe.courses[i].overlappingCourses[l]

\* Reached: after two runs on a list that came with stale marks, one course
\* has lost its stale flag and another is in conflict.
DetectionIdempotentWitness ==
  /\ probe.runs = 2
  /\ \E i, j \in 1..Len(probe.courses) :
       /\ probe.input[i].hasOverlap
       /\ ~probe.courses[i].hasOverlap
       /\ probe.courses[j].hasOverlap

\* C5: after conflict detection, two courses with the same non-empty room, a
\* day in common and overlapping intervals both have hasRoomOverlap set and
\* list each other as peers, whatever their faculty keys.
RoomConflictsMarked ==
  probe.runs >= 1 =>
    \A i, j \in 1..Len(probe.courses) :
      ( /\ i # j
        /\ RoomOf(probe.input[i]) # ""
        /\ RoomOf(probe.input[i]) = RoomOf(probe.input[j])
        /\ ShareDay(probe.input[i], probe.input[j])
        /\ IntervalsOverlap(probe.input[i], probe.input[j]) )
      => /\ HasRoomOverlapOf(probe.courses[i])
         /\ HasRoomOverlapOf(probe.courses[j])
         /\ IsPeer(probe.courses[j].id, probe.courses[i])
         /\ IsPeer(probe.courses[i].id, probe.courses[j])

\* C6: every course of the semester map has 0 <= start < end <= 1440, in
\* minutes since midnight, and a stored duration of end - start.
CourseTimeInvariant ==
  \A id \in IdsOf(semesters) :
    /\ 0 <= heap[id].startTime
    /\ heap[id].startTime < heap[id].endTime
    /\ heap[id].endTime <= 1440
    /\ heap[id].length = heap[id].endTime - heap[id].startTime

\* days is a non-empty text over m, t, w, r, f, in that order, no letter
\* twice.
IsCanonicalDays(days) ==
  /\ Len(days) >= 1
  /\ \A k \in 1..Len(days) : Char(days, k) \in DayLetters
  /\ \A k \in 1..(Len(days) - 1) : IndexIn(Char(days, k), "mtwrf") < IndexIn(Char(days, k + 1), "mtwrf")

\* C7: every course of the semester map has canonical days, whatever text
\* the file or the user gave.
CanonicalDaysInvariant == \A id \in IdsOf(semesters) : IsCanonicalDays(heap[id].days)

\* C8: the ids a step consumes are exactly the ids of the courses it adds to
\* the semester map (so an id is never reused, and a row or an add that adds
\* no course consumes none); ids go up along each semester's list; no step
\* changes the id of a course.
CourseIdDiscipline ==
  [][ /\ courseIdCounter' >= courseIdCounter
      /\ IdsOf(semesters') \ IdsOf(semesters) = (courseIdCounter + 1)..courseIdCounter'
      /\ \A k \in 1..Len(semesters') :
           \A i, j \in 1..Len(semesters'[k].value.courses) :
             i < j => semesters'[k].value.courses[i] < semesters'[k].value.courses[j]
      /\ \A id \in DOMAIN heap' : heap'[id].id = id ]_vars

\* The move check of C9.
MoveAllowed(days, targetDay) ==
  \/ Len(days) = 1
  \/ days = "mwf" /\ targetDay \in {"m", "w", "f"}
  \/ days = "tr" /\ targetDay \in {"t", "r"}

\* C9: the drop-time check is true exactly for a single-day course, an mwf
\* course on m, w or f, and a tr course on t or r, whatever the slot; and the
\* highlight-time check gives the same boolean.
MoveValidity ==
  probe.checked =>
    /\ probe.drop = MoveAllowed(probe.days, probe.targetDay)
    /\ probe.highlight = probe.drop

\* Reached: an mwf course checked against a frame of day w, allowed by both.
MoveValidityWitness ==
  /\ probe.checked
  /\ probe.days = "mwf"
  /\ probe.targetDay = "w"
  /\ probe.drop
  /\ probe.highlight

\* The move check fails, as C10 lists the cases.
MoveCheckFails(days, targetDay) ==
  \/ days = "mwf" /\ targetDay \in {"t", "r"}
  \/ days = "tr" /\ targetDay \in {"m", "w", "f"}
  \/ Len(days) > 1 /\ days \notin {"mwf", "tr"}

\* C10: a drop on a day for which the move check fails leaves every course
\* object and the semester map as they were.
RejectedMoveMutatesNothing ==
  [][ \A targetDay \in DayLetters, targetTime \in DropLabels :
        ( /\ draggedCourse # NoCourse
          /\ MoveCheckFails(heap[draggedCourse].days, targetDay)
          /\ HandleDrop(targetDay, targetTime) )
        => (heap' = heap /\ semesters' = semesters) ]_vars

\* Reached: an mwf course under drag, just refused on a day of the other
\* family.
RejectedMoveWitness ==
  /\ dragging
  /\ draggedCourse # NoCourse
  /\ note = CantSwitchNote
  /\ heap[draggedCourse].days = "mwf"

\* The frames of a day's table that contain minute m of the day.
SlotsContaining(day, m) ==
  {k \in 1..Len(timeFrames(day)) :
     timeFrames(day)[k].startMinutes <= m /\ m < timeFrames(day)[k].endMinutes}

\* The distance from minute m to the start of frame k of the day's table.
StartDistance(day, m, k) ==
  IF m >= timeFrames(day)[k].startMinutes
    THEN m - timeFrames(day)[k].startMinutes
    ELSE timeFrames(day)[k].startMinutes - m

\* The frames of a day's table whose start is nearest to minute m.
NearestSlots(day, m) ==
  {k \in 1..Len(timeFrames(day)) :
     \A j \in 1..Len(timeFrames(day)) : StartDistance(day, m, k) <= StartDistance(day, m, j)}

\* The frame the slot mapping names for a day and a minute: f is that frame.
IsMappedSlot(day, m, f) ==
  IF SlotsContaining(day, m) # {}
    THEN f \in SlotsContaining(day, m) /\ \A k \in SlotsContaining(day, m) : f <= k
  ELSE IF \E k \in NearestSlots(day, m) : StartDistance(day, m, k) <= 30
    THEN f \in NearestSlots(day, m)
  ELSE f = NoFrame

\* C11: on every day of a course that renderSchedule shows, the block goes
\* to the first frame that contains the start minute; when none contains
\* it, to the frame whose start is nearest, if that is at most 30 minutes
\* away; otherwise to no frame, and then the course is on the homeless list.
SlotMapping ==
  (probe.rendered /\ probe.shown) =>
    \A k \in 1..Len(probe.course.days) :
      /\ IsMappedSlot(Char(probe.course.days, k), MinuteOfDay(probe.course.startTime),
                      probe.frames[k])
      /\ probe.frames[k] = NoFrame => probe.homeless

\* Reached: a course that starts at 8:10, before the first frame of Monday
\* and within 30 minutes of it, was placed in that frame.
SlotMappingWitness ==
  /\ probe.rendered
  /\ probe.shown
  /\ probe.course.days = "m"
  /\ probe.course.startTime = 490
  /\ probe.frames = <<1>>
  /\ ~probe.homeless

\* The table of getTimeBlocks that serves a course of these days, when the
\* days are all of one family.
FamilyBlocks(days) ==
  IF \A k \in 1..Len(days) : Char(days, k) \in {"m", "w", "f"} THEN getTimeBlocks.mwf
  ELSE IF \A k \in 1..Len(days) : Char(days, k) \in {"t", "r"} THEN getTimeBlocks.tr
  ELSE <<>>

\* C12: a course that starts at the start minute of a slot is mapped to
\* that slot: by renderSchedule on every day of the course, over TIME_SLOTS,
\* and by findCourseTimeFrame over the table of getTimeBlocks for the family
\* of the course's days.
SlotDeterminism ==
  /\ (probe.rendered /\ probe.shown) =>
       \A k \in 1..Len(probe.course.days) :
         \A j \in 1..Len(timeFrames(Char(probe.course.days, k))) :
           timeFrames(Char(probe.course.days, k))[j].startMinutes = MinuteOfDay(probe.course.startTime)
             => probe.frames[k] = j
  /\ probe.mapped =>
       \A j \in 1..Len(FamilyBlocks(probe.course.days)) :
         MinuteOfDay(FamilyBlocks(probe.course.days)[j].startTime) = MinuteOfDay(probe.course.startTime)
           => /\ probe.timeFrame # NoTimeFrame
              /\ probe.timeFrame.blockIndex = j - 1

\* parseFile has a reader for the extension of the name.
HasReader(name) ==
  \E ext \in {"csv", "xlsx", "xls"} :
    /\ Len(name) > Len(ext)
    /\ toLowerCase(SubSeq(name, Len(name) - Len(ext), Len(name))) = "." \o ext

NoStaleAnnotations ==
  (activeSemester # Null /\ ObjHas(semesters, activeSemester)) =>
    \A k \in 1..Len(ObjGet(semesters, activeSemester).courses) :
      /\ heap[ObjGet(semesters, activeSemester).courses[k]].hasOverlap
           = checkAllOverlaps(Objects(heap, ObjGet(semesters, activeSemester).courses),
                              checkTBAOverlap)[k].hasOverlap
      /\ heap[ObjGet(semesters, activeSemester).courses[k]].overlappingCourses
           = checkAllOverlaps(Objects(heap, ObjGet(semesters, activeSemester).courses),
                              checkTBAOverlap)[k].overlappingCourses

\* Reached: the TBA check was switched off while the active semester holds
\* two TBA courses that meet on Thursday at the same time, and their flags
\* were cleared.
NoStaleAnnotationsWitness ==
  /\ ~checkTBAOverlap
  /\ activeSemester # Null
  /\ ObjHas(semesters, activeSemester)
  /\ \E i, j \in 1..Len(ObjGet(semesters, activeSemester).courses) :
       /\ i # j
       /\ heap[ObjGet(semesters, activeSemester).courses[i]].faculty = "TBA"
       /\ heap[ObjGet(semesters, activeSemester).courses[j]].faculty = "TBA"
       /\ coursesOverlap(heap[ObjGet(semesters, activeSemester).courses[i]],
                         heap[ObjGet(semesters, activeSemester).courses[j]])
       /\ ~heap[ObjGet(semesters, activeSemester).courses[i]].hasOverlap
       /\ heap[ObjGet(semesters, activeSemester).courses[i]].overlappingCourses = <<>>

\* The days text of the form is not a string over mtwrf without repeats.
BadDaysText(form) ==
  \/ \E i \in 1..Len(toLowerCase(trim(form.days))) :
       Char(toLowerCase(trim(form.days)), i) \notin DayLetters
  \/ \E i, j \in 1..Len(toLowerCase(trim(form.days))) :
       i # j /\ Char(toLowerCase(trim(form.days)), i) = Char(toLowerCase(trim(form.days)), j)

\* A field that an add requires is missing from the form.
MissingRequired(form) ==
  \/ trim(form.courseNum) = ""
  \/ form.faculty = ""
  \/ trim(form.days) = ""
  \/ form.start = ""
  \/ form.length = ""

\* The request of the form is one that is to be rejected: the days text is
\* invalid, a required field of an add is missing, or the start text is
\* given and is no time of day.
RequestRejected(form, adding) ==
  \/ BadDaysText(form)
  \/ adding /\ MissingRequired(form)
  \/ form.start # "" /\ parseTime(form.start) = NullDate

LoadsSerialized ==
  [][ pendingLoads # <<>> =>
        /\ Len(pendingLoads') <= Len(pendingLoads)
        /\ pendingLoads' = pendingLoads => edits' = edits ]_vars

\* C17: in an export in single-sheet-term mode, the row of every course
\* that came from the file carries in its term cell the term code of that
\* course's own row of the file, and no row carries a term code the file
\* does not hold when every semester of the file has one.
TermCodesPreserved ==
  (exported.file # 0 /\ formatInfo.type = "single-sheet-term"
     /\ "term" \in DOMAIN formatInfo.columnMapping) =>
    \A r \in 2..Len(exported.workbook[1].data) :
      /\ \A o \in OriginalRowsOf(Files[exported.file].sheets[1].rows, formatInfo.columnMapping,
                                 exported.workbook[1].data[r][formatInfo.columnMapping["courseNum"]]) :
           exported.workbook[1].data[r][formatInfo.columnMapping["term"]]
             = Files[exported.file].sheets[1].rows[o][formatInfo.columnMapping["term"]]
      /\ \E o \in 2..Len(Files[exported.file].sheets[1].rows) :
           exported.workbook[1].data[r][formatInfo.columnMapping["term"]]
             = Files[exported.file].sheets[1].rows[o][formatInfo.columnMapping["term"]]

\* C18: parseTime gives back the minute of the day from the 12-hour text
\* of formatTime and from the 24-hour text of formatTime24 alike (12:00 AM
\* gives 0, 12:00 PM gives 720), and gives null for a text whose hour or
\* minute is out of range.
TimeParsingConsistent ==
  probe.done /\ probe.text # Null =>
    IF probe.date # NullDate
      THEN /\ probe.parsed = probe.date
           /\ probe.text = "12:00 AM" => probe.parsed = 0
           /\ probe.text = "12:00 PM" => probe.parsed = 720
      ELSE probe.parsed = NullDate

\* Reached: parseTime has read "12:00 PM", the text of formatTime for noon.
TimeParsingConsistentWitness ==
  /\ probe.done
  /\ probe.date = 720
  /\ probe.text = "12:00 PM"
  /\ probe.parsed = 720

\* C19: parseDays gives "tr" for "TH" in any case, the value it gives for
\* "TR".
ThursdayAlias ==
  (probe.done /\ probe.daysText # Null /\ toLowerCase(probe.daysText) \in {"th", "tr"}) =>
    probe.days = "tr"

\* The number written in an FTE cell, in hundredths: 100 (that is 1.0) when
\* the cell is absent, empty or holds no number.
WrittenFte(cell) ==
  IF cell \in {Null, ""} \/ parseFloat(cell) = NaN THEN 100 ELSE parseFloat(cell)

\* The sum of the written FTE of the rows from i on that belong to faculty
\* key name.
RECURSIVE WrittenTotal(_, _, _, _)
WrittenTotal(courses, cells, name, i) ==
  IF i > Len(courses) THEN 0
  ELSE (IF courses[i].faculty = name THEN WrittenFte(cells[i]) ELSE 0)
         + WrittenTotal(courses, cells, name, i + 1)

\* C20: calculateFacultyFTE maps exactly the faculty keys of the courses,
\* each to the sum of the FTE written in the rows of that faculty (a written
\* 0 counts as 0; 1.0 only for an absent or unparseable cell), and no course
\* FTE and no total is negative.
FteTotals ==
  probe.done =>
    /\ {probe.fteData[k].name : k \in 1..Len(probe.fteData)}
         = {probe.courses[i].faculty : i \in 1..Len(probe.courses)}
    /\ \A k, j \in 1..Len(probe.fteData) :
         probe.fteData[k].name = probe.fteData[j].name => k = j
    /\ \A k \in 1..Len(probe.fteData) :
         /\ probe.fteData[k].value
              = WrittenTotal(probe.courses, probe.cells, probe.fteData[k].name, 1)
         /\ probe.fteData[k].value >= 0
    /\ \A i \in 1..Len(probe.courses) : probe.courses[i].fte >= 0

\* Some sheet name of the file matches a semester pattern.
NameMatched(sheets) == \E k \in 1..Len(sheets) : detectSemesterFromName(sheets[k].name) # Null

\* The strategy whose buckets the claimed order of strategies selects.
ClaimedStrategy(sheets) ==
  IF NameMatched(sheets) THEN "sheet-name"
  ELSE IF FirstTermSheet(sheets, 1) # 0 THEN "term-column"
  ELSE "fallback"

\* C21: detectSemesters uses the sheet-name strategy whenever some sheet name
\* matches a semester pattern, the term-column strategy only if no sheet
\* matched by name, and the fallback only if neither earlier strategy
\* succeeded; the buckets of exactly that strategy are the result, and
\* formatInfo.type is single-sheet-term exactly when the term-column
\* strategy produced the buckets.
PartitioningOrder ==
  probe.loaded =>
    LET sheets == probe.file.sheets
        strategy == ClaimedStrategy(sheets)
    IN  /\ strategy = "sheet-name" =>
             probe.detected = BySheetName([semesters |-> <<>>, detectedSemesters |-> 0], sheets, 1).semesters
        /\ strategy = "term-column" =>
             probe.detected = ByTermColumn(sheets[FirstTermSheet(sheets, 1)]).semesters
        /\ strategy = "fallback" =>
             probe.detected = ByFallback(<<>>, sheets, probe.file.name, 1)
        /\ (probe.built.formatInfo.type = "single-sheet-term") <=> (strategy = "term-column")

\* The sheet has a header row and at least one data row with a course
\* number and days.
HasData(sheet) == Len(normalizeRows(sheet.rows, FALSE).rows) > 0

\* The sheets whose rows a sheet-based strategy turns into buckets: the
\* name-matching sheets with data, or, when there is none and no sheet
\* qualifies for the term-column strategy, every sheet with data.
ContributingSheets(sheets) ==
  LET matching == {k \in 1..Len(sheets) :
                     detectSemesterFromName(sheets[k].name) # Null /\ HasData(sheets[k])}
  IN  IF matching # {} THEN matching
      ELSE IF FirstTermSheet(sheets, 1) # 0 THEN {}
      ELSE {k \in 1..Len(sheets) : HasData(sheets[k])}

\* C22: in the sheet-name strategy and in the fallback strategy every
\* contributing sheet becomes its own bucket: there are as many buckets as
\* contributing sheets, and the rows of each contributing sheet are the
\* rows of a bucket.
NoSheetLost ==
  (probe.loaded /\ probe.built.formatInfo.type = "separate-sheets") =>
    LET sheets == probe.file.sheets
    IN  /\ Len(probe.detected) = Cardinality(ContributingSheets(sheets))
        /\ \A k \in ContributingSheets(sheets) :
             \E b \in 1..Len(probe.detected) :
               probe.detected[b].value = normalizeRows(sheets[k].rows, FALSE).rows

\* Neither the sheet-name strategy nor the term-column strategy gave a bucket.
FallbackUsed(sheets) ==
  /\ \A k \in 1..Len(sheets) : detectSemesterFromName(sheets[k].name) # Null => ~HasData(sheets[k])
  /\ FirstTermSheet(sheets, 1) = 0

\* The name the claimed priority gives the bucket of a sheet: the semester of
\* the file name, else the slug of the sheet name, else schedule.
ClaimedBucketName(sheet, fileName) ==
  IF detectSemesterFromName(fileName) # Null THEN detectSemesterFromName(fileName)
  ELSE IF ReplaceSpaceRuns(toLowerCase(sheet.name), "_") # ""
    THEN ReplaceSpaceRuns(toLowerCase(sheet.name), "_")
  ELSE "schedule"

\* C23: in the fallback strategy the buckets carry the names of the claimed
\* priority: the semester matched in the file name, else the slug of the
\* sheet name, and schedule only when neither applies.
FallbackNaming ==
  (probe.loaded /\ FallbackUsed(probe.file.sheets)) =>
    {probe.detected[b].name : b \in 1..Len(probe.detected)}
      = {ClaimedBucketName(probe.file.sheets[k], probe.file.name) :
           k \in {j \in 1..Len(probe.file.sheets) : HasData(probe.file.sheets[j])}}

\* The semantic fields some of the cells (lower-cased and trimmed) binds: the
\* cell equals or contains an alias of the field.
FieldsBoundByCells(cells) ==
  {COLUMN_ALIASES[f].field : f \in {g \in 1..Len(COLUMN_ALIASES) :
     \E c \in 1..Len(cells) :
       /\ cells[c] # ""
       /\ \E a \in 1..Len(COLUMN_ALIASES[g].aliases) :
            includes(cells[c], COLUMN_ALIASES[g].aliases[a])}}

FieldsBoundBy(row) == FieldsBoundByCells([c \in 1..Len(row) |-> trim(toLowerCase(row[c]))])

\* The positions among the first five rows that bind at least 3 fields.
HeaderCandidates(rows) ==
  {i \in 1..Len(rows) : i <= 5 /\ Cardinality(FieldsBoundBy(rows[i])) >= 3}

\* The sheets of the file in which a header row exists.
SheetsWithHeader(sheets) == SelectSeq(sheets, LAMBDA s : HeaderCandidates(s.rows) # {})

\* The row lists of the buckets, without their names.
BucketRows(detected) == [b \in 1..Len(detected) |-> detected[b].value]

\* C24: normalizeRows accepts as header the lowest-index row among the first
\* five rows of the sheet that binds at least 3 fields, and only rows after
\* it become data rows; a sheet with no such row contributes no rows, and the
\* buckets of the load hold the rows they hold when the file is loaded
\* without the sheets that have no header.
HeaderDetection ==
  probe.loaded =>
    /\ \A k \in 1..Len(probe.file.sheets) :
         \E rows \in {probe.file.sheets[k].rows} :
         \E result \in {normalizeRows(rows, TRUE)} :
         \E candidates \in {HeaderCandidates(rows)} :
           IF candidates = {} THEN result.rows = <<>>
           ELSE \E h \in {CHOOSE i \in candidates : \A j \in candidates : i <= j} :
                  /\ result.headerRowIndex = h - 1
                  /\ result.headers = rows[h]
                  /\ \A r \in 1..Len(result.rows) :
                       /\ result.rows[r]._originalRowIndex > h - 1
                       /\ result.rows[r]._originalRow = rows[result.rows[r]._originalRowIndex + 1]
    /\ \E kept \in {SheetsWithHeader(probe.file.sheets)} :
         kept # probe.file.sheets =>
           BucketRows(probe.detected) = BucketRows(detectSemesters(kept, probe.file.name).semesters)

\* A load of two sheets: one with no header among its first five rows, one
\* whose header is its third row and that has a header-like row among its
\* data rows; the load has a bucket with two rows.
HeaderDetectionWitness ==
  /\ probe.loaded
  /\ Len(probe.file.sheets) = 2
  /\ probe.file.sheets[1].rows = LateHeaderRows
  /\ probe.file.sheets[2].rows = TitledRows
  /\ normalizeRows(TitledRows, TRUE).headerRowIndex = 2
  /\ Len(probe.detected) = 1
  /\ Len(probe.detected[1].value) = 3

\* The trimmed text of the cell of a raw row in the column bound to field,
\* empty when the field is not bound or the row ends before the column.
RawCell(row, mapping, field) ==
  IF field \in DOMAIN mapping /\ mapping[field] <= Len(row) THEN trim(row[mapping[field]]) ELSE ""

\* The claimed condition for a data row to yield a course.
RowAccepted(row, mapping) ==
  /\ RawCell(row, mapping, "courseNum") # ""
  /\ RawCell(row, mapping, "days") # ""
  /\ parseTime(RawCell(row, mapping, "startTime")) # NullDate
  /\ parseTime(RawCell(row, mapping, "endTime")) # NullDate
  /\ parseDays(RawCell(row, mapping, "days")) # ""

\* The same condition on a normalized row.
NormalizedAccepted(normalized) ==
  /\ normalized.courseNum # ""
  /\ normalized.days # ""
  /\ parseTime(normalized.startTime) # NullDate
  /\ parseTime(normalized.endTime) # NullDate
  /\ parseDays(normalized.days) # ""

\* The course numbers of a list of rows or courses.
CourseNums(list) == [k \in 1..Len(list) |-> list[k].courseNum]

\* C25: a data row yields a course exactly when its courseNum and days cells
\* are non-empty and its start time, end time and days parse; the courses of
\* a sheet are those of its accepted rows, in the order of the rows, and
\* every bucket of the load holds the courses of the accepted rows among its
\* rows, in their order.
RowRejectionLocal ==
  probe.loaded =>
    /\ \A k \in 1..Len(probe.file.sheets) :
         \E rows \in {probe.file.sheets[k].rows} :
         \E result \in {normalizeRows(rows, FALSE)} :
           result.columnMapping # NoMapping =>
             CourseNums(CreateCourses(result.rows, 1, 0).courses)
               = [j \in 1..Len(SelectSeq(SubSeq(rows, result.headerRowIndex + 2, Len(rows)),
                                         LAMBDA row : RowAccepted(row, result.columnMapping))) |->
                    RawCell(SelectSeq(SubSeq(rows, result.headerRowIndex + 2, Len(rows)),
                                      LAMBDA row : RowAccepted(row, result.columnMapping))[j],
                            result.columnMapping, "courseNum")]
    /\ Len(probe.built.semesters) = Len(probe.detected)
    /\ \A b \in 1..Len(probe.detected) :
         CourseNums(Objects(probe.built.courses, probe.built.semesters[b].value.courses))
           = CourseNums(SelectSeq(probe.detected[b].value, NormalizedAccepted))

\* A load whose first bucket comes from the sheet with three rejected rows
\* among its five data rows: the bucket holds the two courses of the other
\* rows, the second of them after the rejected rows.
RowRejectionLocalWitness ==
  /\ probe.loaded
  /\ probe.file.sheets[1].rows = PlainRows
  /\ Len(probe.detected) > 0
  /\ Len(probe.detected[1].value) = 4
  /\ CourseNums(Objects(probe.built.courses, probe.built.semesters[1].value.courses)) = <<"MA101", "MA104">>

\* The index of the source row of the sheet that holds courseNum in the
\* course-number column (0 when there is none).
SourceRowIndex(rows, column, courseNum) ==
  IF \E i \in 1..Len(rows) : Len(rows[i]) >= column /\ trim(rows[i][column]) = courseNum
    THEN (CHOOSE i \in 1..Len(rows) : Len(rows[i]) >= column /\ trim(rows[i][column]) = courseNum) - 1
    ELSE 0

\* The sheet of the file that the term-column strategy took.
TermSheetOf(file) == file.sheets[FirstTermSheet(file.sheets, 1)]

\* C26: in single-sheet-term mode the exported rows of the courses loaded
\* from the file appear in ascending order of their original source row
\* index, across all semesters (no course is added between the load and the
\* export here, so every exported row is the row of a loaded course).
ExportInSourceOrder ==
  (probe.saved /\ probe.built.formatInfo.type = "single-sheet-term") =>
    \E data \in {probe.workbook[1].data} :
    \E column \in {probe.built.formatInfo.columnMapping["courseNum"]} :
      \A r1, r2 \in 2..Len(data) :
        r1 < r2 =>
          SourceRowIndex(TermSheetOf(probe.file).rows, column, data[r1][column])
            < SourceRowIndex(TermSheetOf(probe.file).rows, column, data[r2][column])

\* C30: detectColumnMapping never binds two different fields to the same
\* column: the mapping of the header row of every sheet is injective, so a
\* header that binds at least 3 fields has at least 3 distinct bound columns.
ColumnMappingInjective ==
  probe.loaded =>
    \A k \in 1..Len(probe.file.sheets) :
      \E mapping \in {normalizeRows(probe.file.sheets[k].rows, TRUE).columnMapping} :
        /\ \A f, g \in DOMAIN mapping : f # g => mapping[f] # mapping[g]
        /\ mapping # NoMapping => Cardinality({mapping[f] : f \in DOMAIN mapping}) >= 3

\* The conflict annotations of a course, which renderCurrentSemester
\* recomputes.
AnnotationFields == {"hasOverlap", "overlappingCourses", "hasRoomOverlap"}

\* The frame of the day's table that carries the label.
FrameLabelled(day, label) ==
  timeFrames(day)[CHOOSE k \in 1..Len(timeFrames(day)) : timeFrames(day)[k].label = label]

\* Two course objects agree on every field outside a set of fields.
SameOutside(c, d, fields) ==
  /\ DOMAIN c \ fields = DOMAIN d \ fields
  /\ \A field \in DOMAIN c \ fields : c[field] = d[field]

\* The effect of a drop of the dragged course on the slot of targetDay
\* labelled targetTime, when the fields in ignored are left out of the frame
\* condition.
MoveEffect(targetDay, targetTime, ignored) ==
  LET c == heap[draggedCourse]
      moved == heap'[draggedCourse]
  IN  /\ moved.startTime = FrameLabelled(targetDay, targetTime).startMinutes
      /\ moved.endTime - moved.startTime = c.endTime - c.startTime
      /\ moved.days = IF Len(c.days) = 1 THEN targetDay ELSE c.days
      /\ SameOutside(c, moved, {"startTime", "endTime", "days"} \cup ignored)
      /\ \A id \in DOMAIN heap \ {draggedCourse} :
           id \in DOMAIN heap' /\ SameOutside(heap[id], heap'[id], ignored)
      /\ semesters' = semesters
      /\ \A i \in 1..Len(moved.days) :
           /\ findTimeFrame(Char(moved.days, i), moved.startTime) # NoFrame
           /\ timeFrames(Char(moved.days, i))[findTimeFrame(Char(moved.days, i), moved.startTime)].label
                = targetTime

\* The drop of the dragged course on the frame passes the move check.
DropAccepted(targetDay, targetTime) ==
  /\ draggedCourse # NoCourse
  /\ canMoveToTarget(heap[draggedCourse], targetDay, targetTime).ok
  /\ HandleDrop(targetDay, targetTime)

\* C27: when handleDrop accepts a drop of course c on slot S of day D,
\* afterwards c starts at S's start minute with its duration unchanged, its
\* days are D if it had a single day and unchanged otherwise, all other
\* fields of c and all other courses are unchanged, and findTimeFrame gives
\* the slot labelled as S for every day of c.
AcceptedMoveEffectStrict ==
  [][ \A targetDay \in DayLetters, targetTime \in DropLabels :
        DropAccepted(targetDay, targetTime) => MoveEffect(targetDay, targetTime, {}) ]_vars

\* C27, amended: the same, with the conflict annotations of the courses
\* (hasOverlap, overlappingCourses) left out of "unchanged": the render that
\* ends handleDrop recomputes them.
AcceptedMoveEffect ==
  [][ \A targetDay \in DayLetters, targetTime \in DropLabels :
        DropAccepted(targetDay, targetTime) => MoveEffect(targetDay, targetTime, AnnotationFields) ]_vars

\* Reached: the Friday course MA101 (13:10 to 14:00) was dropped on the 8:30
\* slot of Monday (it is still the dragged course and now the selected
\* one), and the render marked it as overlapping with a course of Monday.
AcceptedMoveEffectWitness ==
  /\ dragging
  /\ draggedCourse # NoCourse
  /\ selectedCourse = draggedCourse
  /\ edits = 1
  /\ note = ""
  /\ heap[draggedCourse].courseNum = "MA101"
  /\ heap[draggedCourse].days = "m"
  /\ heap[draggedCourse].startTime = 510
  /\ heap[draggedCourse].endTime = 560
  /\ heap[draggedCourse].hasOverlap

\* C28: after every completed operation state.activeSemester is null or a
\* key of the current state.semesters, also after the load of a file that
\* yields no bucket at all.
ActiveSemesterValid == activeSemester = Null \/ ObjHas(semesters, activeSemester)

\* C29: after every completed operation state.selectedCourse is null or a
\* course of the active semester's course list; a new load or a semester
\* switch never leaves a course of a replaced or inactive bucket selected.
SelectedCourseValid ==
  \/ selectedCourse = NoCourse
  \/ \E k \in 1..Len(getCurrentCourses(semesters, activeSemester)) :
       getCurrentCourses(semesters, activeSemester)[k] = selectedCourse

=============================================================================
